---------------------------- MODULE Spec2Model ----------------------------
(***************************************************************************)
(* A model of scraper.py: the TermPlanScraper class and main().            *)
(*                                                                         *)
(* Three specifications share the variables and the worker actions:        *)
(*   Spec      the program as main() runs it (limit = 1): start, URL       *)
(*             discovery, one scrape_plan worker whose form interaction    *)
(*             is followed provider call by provider call, gather, the     *)
(*             output file and the final clean-up;                         *)
(*   SpecPool  gather over a list of URLs (a scraper built with another    *)
(*             limit), the workers interleaved at their await points,      *)
(*             those of the navigation loop and of the form interaction    *)
(*             included, up to the cancellation of the tasks left when     *)
(*             main has returned; the pages of a run are of one kind:      *)
(*             up to MaxUrls pages whose form calls raise, or up to        *)
(*             MaxForms pages that cooperate with the forms;               *)
(*   SpecParse parse_maxlife_plan called on records of the caller's        *)
(*             choosing.                                                   *)
(* The browser automation engine (Playwright) is the environment: each     *)
(* call into it either succeeds, finds nothing, or raises, chosen          *)
(* nondeterministically.                                                   *)
(***************************************************************************)
EXTENDS Integers, Sequences, FiniteSets, TLC

(***************************************************************************)
(* Bounds of the model.                                                    *)
(***************************************************************************)
MaxUrls == 4
MaxItems == 1
MaxForms == 2

(***************************************************************************)
(* Program constants (scraper.py lines 17-21).                             *)
(***************************************************************************)
MAX_CONCURRENT_PAGES == 3
RETRY_ATTEMPTS == 3
RETRY_DELAY == 5
MainLimit == 1

(***************************************************************************)
(* Strings.  A Python str is a sequence of tokens: a token is a maximal    *)
(* run of letters and digits (a word) or one separator character.          *)
(***************************************************************************)
Separators == {"/", "-", " ", "?", ":", "."}

IsWord(tok) == tok \notin Separators

\* str.lower() and the first-upper-rest-lower form of str.title(), per word.
LowerTable ==
  [w \in {"Smart", "Secure", "Plus", "Plan", "Term", "Buy", "Online", "Best",
          "In", "India", "Axis", "Max", "Life", "Insurance", "Medical",
          "Smoker", "Saral", "Jeevan", "Bima"} |->
     CASE w = "Smart" -> "smart" [] w = "Secure" -> "secure"
       [] w = "Plus" -> "plus" [] w = "Plan" -> "plan" [] w = "Term" -> "term"
       [] w = "Buy" -> "buy" [] w = "Online" -> "online" [] w = "Best" -> "best"
       [] w = "In" -> "in" [] w = "India" -> "india" [] w = "Axis" -> "axis"
       [] w = "Max" -> "max" [] w = "Life" -> "life"
       [] w = "Insurance" -> "insurance" [] w = "Medical" -> "medical"
       [] w = "Smoker" -> "smoker" [] w = "Saral" -> "saral"
       [] w = "Jeevan" -> "jeevan" [] w = "Bima" -> "bima"]

Lower(tok) == IF tok \in DOMAIN LowerTable THEN LowerTable[tok] ELSE tok

Title(tok) ==
  IF \E w \in DOMAIN LowerTable : LowerTable[w] = Lower(tok)
  THEN CHOOSE w \in DOMAIN LowerTable : LowerTable[w] = Lower(tok)
  ELSE tok

\* str.title() over the tokens of s
TitleAll(s) == [i \in 1..Len(s) |-> Title(s[i])]

\* Index of the last occurrence of tok in s, 0 when there is none.
LastIndexOf(s, tok) ==
  IF \E i \in 1..Len(s) : s[i] = tok
  THEN CHOOSE i \in 1..Len(s) : s[i] = tok /\ \A j \in (i+1)..Len(s) : s[j] # tok
  ELSE 0

\* s.rstrip("/")
RECURSIVE RStripSlash(_)
RStripSlash(s) ==
  IF Len(s) > 0 /\ s[Len(s)] = "/" THEN RStripSlash(SubSeq(s, 1, Len(s) - 1))
  ELSE s

\* s.split("/")[-1]
LastSegment(s) == SubSeq(s, LastIndexOf(s, "/") + 1, Len(s))

\* re.sub(r"-plan$", "", s, flags=re.IGNORECASE)
DropPlanSuffix(s) ==
  IF Len(s) >= 2 /\ s[Len(s) - 1] = "-" /\ Lower(s[Len(s)]) = "plan"
  THEN SubSeq(s, 1, Len(s) - 2)
  ELSE s

\* s.replace("-", " ")
HyphensToSpaces(s) == [i \in 1..Len(s) |-> IF s[i] = "-" THEN " " ELSE s[i]]

IsYear202x(tok) == tok \in {"2020", "2021", "2022", "2023", "2024", "2025",
                            "2026", "2027", "2028", "2029"}

\* The sequence pat occurs in s at position i, compared case-insensitively.
MatchesAt(s, i, pat) ==
  /\ i + Len(pat) - 1 <= Len(s)
  /\ \A k \in 1..Len(pat) : Lower(s[i + k - 1]) = pat[k]

MarketingPhrases ==
  << <<"buy">>, <<"best">>, <<"online">>, <<"in", " ", "india">>,
     <<"axis", " ", "max", " ", "life", " ", "insurance">> >>

\* Length of the marketing term matched at position i of s (the first
\* alternative of the pattern that matches), 0 when none does.
MarketingMatchLen(s, i) ==
  IF \E p \in 1..Len(MarketingPhrases) : MatchesAt(s, i, MarketingPhrases[p])
  THEN LET p == CHOOSE q \in 1..Len(MarketingPhrases) :
                  /\ MatchesAt(s, i, MarketingPhrases[q])
                  /\ \A r \in 1..(q - 1) : ~MatchesAt(s, i, MarketingPhrases[r])
       IN  Len(MarketingPhrases[p])
  ELSE IF IsYear202x(s[i]) THEN 1 ELSE 0

\* re.sub(r"\b(buy|best|online|in india|202\d|axis max life insurance)\b", "", s, flags=re.IGNORECASE)
RECURSIVE StripMarketingFrom(_, _)
StripMarketingFrom(s, i) ==
  IF i > Len(s) THEN <<>>
  ELSE LET n == MarketingMatchLen(s, i)
       IN  IF n > 0 THEN StripMarketingFrom(s, i + n)
           ELSE <<s[i]>> \o StripMarketingFrom(s, i + 1)

StripMarketing(s) == StripMarketingFrom(s, 1)

\* re.sub(r"\s+", " ", s).strip()
RECURSIVE CollapseSpacesFrom(_, _, _)
CollapseSpacesFrom(s, i, afterSpace) ==
  IF i > Len(s) THEN <<>>
  ELSE IF s[i] = " "
       THEN (IF afterSpace THEN <<>> ELSE <<" ">>) \o CollapseSpacesFrom(s, i + 1, TRUE)
       ELSE <<s[i]>> \o CollapseSpacesFrom(s, i + 1, FALSE)

Strip(s) ==
  LET first == IF \E i \in 1..Len(s) : s[i] # " "
               THEN CHOOSE i \in 1..Len(s) : s[i] # " " /\ \A j \in 1..(i-1) : s[j] = " "
               ELSE Len(s) + 1
      last  == IF \E i \in 1..Len(s) : s[i] # " "
               THEN CHOOSE i \in 1..Len(s) : s[i] # " " /\ \A j \in (i+1)..Len(s) : s[j] = " "
               ELSE 0
  IN  SubSeq(s, first, last)

CollapseSpaces(s) == Strip(CollapseSpacesFrom(s, 1, FALSE))

\* A faulty variant of clean_plan_name_from_url: the marketing terms are
\* left in the name.  C17 must fail with it.
clean_plan_name_keeping_marketing(url) ==
  LET plan_slug == DropPlanSuffix(LastSegment(RStripSlash(url)))
      titled    == TitleAll(HyphensToSpaces(plan_slug))
      plan_name == CollapseSpaces(titled)
  IN  <<"Axis", " ", "Max", " ", "Life", " ">> \o plan_name \o <<" ", "Plan">>

\* TermPlanScraper.clean_plan_name_from_url
clean_plan_name_from_url(url) ==
  LET plan_slug == DropPlanSuffix(LastSegment(RStripSlash(url)))
      titled    == TitleAll(HyphensToSpaces(plan_slug))
      plan_name == CollapseSpaces(StripMarketing(titled))
  IN  <<"Axis", " ", "Max", " ", "Life", " ">> \o plan_name \o <<" ", "Plan">>


\* url_parts[-1].replace("-plan", ""): every "-plan" is removed, also where a
\* longer word follows the hyphen ("-plans" leaves "s").
AfterPlanPrefix(tok) ==
  CASE tok = "plan" -> <<>>
    [] tok = "plans" -> <<"s">>
    [] OTHER -> <<tok>>

StartsWithPlan(tok) == tok \in {"plan", "plans"}

RECURSIVE RemoveDashPlanFrom(_, _)
RemoveDashPlanFrom(s, i) ==
  IF i > Len(s) THEN <<>>
  ELSE IF s[i] = "-" /\ i < Len(s) /\ StartsWithPlan(s[i + 1])
       THEN AfterPlanPrefix(s[i + 1]) \o RemoveDashPlanFrom(s, i + 2)
       ELSE <<s[i]>> \o RemoveDashPlanFrom(s, i + 1)

RemoveDashPlan(s) == RemoveDashPlanFrom(s, 1)

\* "Axis" in s
ContainsAxis(s) == \E i \in 1..Len(s) : s[i] = "Axis"

(***************************************************************************)
(* Values of record fields: str, bool, list (the riders) and dict (the     *)
(* quote details), tagged so that values of different types are distinct.  *)
(***************************************************************************)
StrV(s) == [t |-> "str", v |-> s]
BoolV(b) == [t |-> "bool", v |-> b]
ListV(l) == [t |-> "list", v |-> l]
DictV(d) == [t |-> "dict", v |-> d]
NoneV == [t |-> "none", v |-> <<>>]

NA == StrV(<<"N", "/", "A">>)

required_keys ==
  <<"source_url", "source_scrape_date", "insurer", "plan_name", "plan_type",
    "monthly_premium", "medical_required", "smoker_premium_diff",
    "add_on_riders", "quote_details">>

SchemaKeys == {required_keys[i] : i \in 1..Len(required_keys)}

\* d[k] = v on a dict d
Put(d, k, v) == [x \in (DOMAIN d) \cup {k} |-> IF x = k THEN v ELSE d[x]]

\* d.get(k, default)
Get(d, k, default) == IF k \in DOMAIN d THEN d[k] ELSE default

EmptyDict == [k \in {} |-> NA]

\* TermPlanScraper.parse_maxlife_plan
\* A faulty variant of parse_copy: plan_data = raw_data, the local name
\* stands for the caller's own object.  C30 must fail with it.
parse_copy_aliasing(raw_data) ==
  [bound |-> "raw_data", objects |-> [o \in {"raw_data", "copy"} |-> raw_data]]

\* line 153: plan_data = raw_data.copy().  The objects of a call are the
\* caller's record ("raw_data") and the one copy() makes ("copy"), which
\* holds the same items; bound says which of them the local name plan_data
\* stands for.
parse_copy(raw_data) ==
  [bound |-> "copy", objects |-> [o \in {"raw_data", "copy"} |-> raw_data]]

\* plan_data[k] = v (lines 161 and 176): the item is set in the object the
\* local name stands for
parse_assign(h, k, v) == [h EXCEPT !.objects[h.bound] = Put(@, k, v)]

\* A faulty variant of parse_defaults: the missing keys are not filled in.
\* C14 must fail with it.
parse_defaults_skipped(h, i) == h

\* lines 174-176: for key in required_keys, from the i-th key on
RECURSIVE parse_defaults(_, _)
parse_defaults(h, i) ==
  IF i > Len(required_keys) THEN h
  ELSE parse_defaults(IF required_keys[i] \in DOMAIN h.objects[h.bound]
                      THEN h
                      ELSE parse_assign(h, required_keys[i], NA),
                      i + 1)

\* lines 152-177: the objects when the call returns; the object returned
\* (line 177) is the one plan_data stands for
parse_maxlife_plan_call(raw_data) ==
  LET h == parse_copy(raw_data)
      held == h.objects[h.bound]
      named ==
        IF "source_url" \in DOMAIN held
        THEN LET last == LastSegment(held["source_url"].v)
                 plan_shortname ==
                   TitleAll(HyphensToSpaces(RemoveDashPlan(last)))
             IN  IF \/ "plan_name" \notin DOMAIN held
                    \/ ~ContainsAxis(held["plan_name"].v)
                 THEN parse_assign(h, "plan_name",
                          StrV(<<"Axis", " ", "Max", " ", "Life", " ">>
                               \o plan_shortname \o <<" ", "Plan">>))
                 ELSE h
        ELSE h
  IN  parse_defaults(named, 1)

\* The record parse_maxlife_plan returns.
parse_maxlife_plan(raw_data) ==
  LET h == parse_maxlife_plan_call(raw_data)
  IN  h.objects[h.bound]

(***************************************************************************)
(* URLs.  BASE_URL and the hrefs the listing page may hold.                *)
(***************************************************************************)
BASE_URL == <<"https", ":", "/", "/", "www", ".", "axismaxlife", ".", "com">>

ListingPath == <<"/", "term", "-", "insurance", "-", "plans">>

Slugs ==
  << <<"smart", "-", "secure", "-", "plus", "-", "plan">>,
     <<"buy", "-", "online", "-", "term", "-", "plan">>,
     <<"saral", "-", "jeevan", "-", "bima">>,
     <<"smart", "-", "term", "-", "plan", "-", "2024">>,
     <<"best", "-", "term", "-", "plan", "-", "in", "-", "india">> >>

PlanUrl(i) == BASE_URL \o ListingPath \o <<"/">> \o Slugs[((i - 1) % Len(Slugs)) + 1]
                \o (IF i > Len(Slugs) THEN <<"-", "plus">> ELSE <<>>)

Today == <<"2026", "-", "10", "-", "30">>

(***************************************************************************)
(* The text of a plan page, as all_inner_texts() returns it: a set of      *)
(* words.  "x" in joined_text.lower() is a substring test.                 *)
(***************************************************************************)
PageWords == {"Medical", "nonsmoker", "term"}

ContainsLowered(tok, needle) ==
  \/ Lower(tok) = needle
  \/ (tok = "nonsmoker" /\ needle = "smoker")

TextHas(texts, needle) == \E tok \in texts : ContainsLowered(tok, needle)

(***************************************************************************)
(* State.                                                                  *)
(***************************************************************************)
VARIABLES
  provider,             \* what the web provider can serve in this run (never changes)
  mainPc,           \* position of main()
  driver,           \* the automation driver: "none", "running", "stopped"
  browser,          \* scraper.browser: "none", "open", "closed"
  context,          \* scraper.context: "none", "open"
  playwright_bound, \* main's local variable playwright is assigned
  plan_urls,        \* the URLs dispatched, in task order
  parsed_plans,     \* what main wrote to the output file
  written,          \* the writing of the output file: "no" (not tried), "refused"
                    \* (the file is as it was), "truncated", "whole"
  sem,              \* scraper.semaphore: the number of free slots
  cPc,              \* position of collect_plan_urls
  cPage,            \* its page: "none", "open", "closed"
  cNav,             \* what its navigation loop did, until its next step
  pc,               \* per worker: position of scrape_plan
  plan_data,        \* per worker: the dict plan_data
  page,             \* per worker: the page plan: "none", "open", "closed"
  nav,              \* per worker: what the navigation loop did, until the next step
  ret,              \* per worker: the value of the return statement taken
  returned,         \* per worker: the object a call of parse_maxlife_plan on a
                    \* record of the caller's returned: "none", "raw_data", "copy"
  loc,              \* per worker: position and locals of the form interaction
  result            \* per worker: how the task ended

mainVars == <<mainPc, driver, browser, context, playwright_bound, plan_urls,
              parsed_plans, written>>
collectVars == <<cPc, cPage, cNav>>
workerVars == <<pc, plan_data, page, nav, ret, returned, result, loc>>

Workers == 1..MaxUrls

Pending == [kind |-> "pending", value |-> EmptyDict]
Returned(d) == [kind |-> "record", value |-> d]
Raised == [kind |-> "raised", value |-> EmptyDict]
Cancelled == [kind |-> "cancelled", value |-> EmptyDict]

\* No navigation loop has just run.  at says where a loop stands: before
\* the goto of a pass, before its wait_for_load_state, before the sleep that
\* follows a failed pass, or "done" when it is left or none is running.
NoNav ==
  [loaded |-> FALSE, gotos |-> 0, sleeps |-> 0, answers |-> <<>>,
   delays |-> <<>>, terminal |-> FALSE, at |-> "done"]

\* The form interaction of a task before its first call: where it stands
\* (handler h, step, index i), the locals of the handlers, and what it has
\* done so far.
NoRider == [name |-> NoneV, coverage |-> NoneV, premium |-> NoneV]

LocInit ==
  [h |-> "handle_any_form", step |-> "call", i |-> 0,
   form |-> 0, tried |-> <<>>, reports |-> <<>>, submitted |-> {},
   form_success |-> FALSE,
   btn |-> 0, attempt |-> 0, retry_delay |-> 0, proceed_btn |-> 0,
   premium_element |-> 0, btn_enabled |-> FALSE,
   n |-> 0, cur |-> NoRider, riders |-> <<>>, quote_details |-> EmptyDict,
   addons |-> <<>>, wrote |-> EmptyDict, cooperative |-> TRUE,
   entered |-> {}, found |-> 0, popup_returned |-> "nothing", covered |-> 0]

\* What is kept of the interaction of worker w once its task has left it:
\* all of it where the run keeps the records of its tasks (provider.counts),
\* nothing where it follows their scheduling only.
Forget(w) ==
  loc' = IF provider.counts THEN loc ELSE [loc EXCEPT ![w] = LocInit]

\* The engine serves a call only while the browser is open.
EngineUp == browser = "open" /\ driver = "running"

\* main() has made its last call into the engine and returns when it is
\* resumed ("done"), or has returned ("over").
MainEnded == mainPc \in {"done", "over"}

\* asyncio.run (line 1049) has taken main's return and cancelled the tasks
\* that were left: each of them is resumed with CancelledError.
TasksCancelled == mainPc = "over"

(***************************************************************************)
(* scrape_plan (lines 101-149), one action per await.                      *)
(***************************************************************************)
\* lines 103-109: the dict plan_data as first built
InitialPlanData(url) ==
  [k \in {"source_url", "source_scrape_date", "insurer", "plan_name", "plan_type"} |->
     CASE k = "source_url" -> StrV(url)
       [] k = "source_scrape_date" -> StrV(Today)
       [] k = "insurer" -> StrV(<<"Axis", " ", "Max", " ", "Life", " ", "Insurance">>)
       [] k = "plan_name" -> StrV(clean_plan_name_from_url(url))
       [] k = "plan_type" -> StrV(<<"Term", " ", "Insurance">>)]

\* A faulty variant of Acquire: the slot is taken without waiting for a free
\* one.  C4 must fail with it.
AcquireWithoutWaiting(w) ==
  /\ pc[w] = "waiting" /\ ~TasksCancelled
  /\ sem' = sem - 1
  /\ plan_data' = [plan_data EXCEPT ![w] = InitialPlanData(plan_urls[w])]
  /\ pc' = [pc EXCEPT ![w] = "new_page"]
  /\ UNCHANGED <<provider, returned, mainVars, collectVars, loc, page, nav, ret, result>>

\* line 102: async with self.semaphore, entered
Acquire(w) ==
  /\ pc[w] = "waiting" /\ ~TasksCancelled
  /\ sem > 0
  /\ sem' = sem - 1
  /\ plan_data' = [plan_data EXCEPT ![w] = InitialPlanData(plan_urls[w])]
  /\ pc' = [pc EXCEPT ![w] = "new_page"]
  /\ UNCHANGED <<provider, returned, mainVars, collectVars, loc, page, nav, ret, result>>

\* A faulty variant of Leave: the task ends and keeps its slot.  C11 must
\* fail with it.
LeaveKeepingSlot(w, r) ==
  /\ UNCHANGED sem
  /\ result' = [result EXCEPT ![w] = r]
  /\ pc' = [pc EXCEPT ![w] = "done"]
  /\ plan_data' = [plan_data EXCEPT ![w] = EmptyDict]
  /\ ret' = [ret EXCEPT ![w] = EmptyDict]
  /\ nav' = [nav EXCEPT ![w] = NoNav]
  /\ Forget(w)

\* Leaving the async with block (line 102): the slot is released and the task
\* ends with outcome r; its local variables are gone.
Leave(w, r) ==
  /\ sem' = sem + 1
  /\ result' = [result EXCEPT ![w] = r]
  /\ pc' = [pc EXCEPT ![w] = "done"]
  /\ plan_data' = [plan_data EXCEPT ![w] = EmptyDict]
  /\ ret' = [ret EXCEPT ![w] = EmptyDict]
  /\ nav' = [nav EXCEPT ![w] = NoNav]
  /\ Forget(w)

\* The browsing context the page of worker w lives in.  start() makes one
\* context and keeps it in self.context (line 40); every worker opens its
\* page in it (line 112) and no other context is ever made.
ContextOf(w) == IF page[w] = "none" THEN "none" ELSE "self.context"

\* line 112: plan = await self.context.new_page(); when it raises, lines
\* 144-149 return plan_data with no page to close.
NewPage(w) ==
  /\ pc[w] = "new_page" /\ ~TasksCancelled
  /\ \/ /\ EngineUp
        /\ page' = [page EXCEPT ![w] = "open"]
        /\ pc' = [pc EXCEPT ![w] = "nav"]
        /\ nav' = [nav EXCEPT ![w] = [NoNav EXCEPT !.at = "goto"]]
        /\ UNCHANGED <<sem, ret, result, plan_data, loc>>
     \/ /\ Leave(w, Returned(plan_data[w]))
        /\ UNCHANGED page
  /\ UNCHANGED <<provider, returned, mainVars, collectVars>>

\* A faulty variant of navigation_loop: every pass is made, whatever the
\* earlier ones answered.  C6 must fail with it.
navigation_loop_without_break(loads, attempt) ==
  [loaded |-> \E i \in (attempt + 1)..RETRY_ATTEMPTS : loads[i],
   gotos |-> RETRY_ATTEMPTS, sleeps |-> RETRY_ATTEMPTS - 1,
   answers |-> SubSeq(loads, 1, RETRY_ATTEMPTS),
   delays |-> [i \in 1..(RETRY_ATTEMPTS - 1) |-> RETRY_DELAY]]

\* The navigation loop of lines 52-63 (as that of lines 114-125), run from
\* pass attempt on:
\* loads[i] says whether page.goto and page.wait_for_load_state both succeed
\* in pass i.  The loop ends at the first pass that succeeds (break), or after
\* the last pass (return); asyncio.sleep(RETRY_DELAY) follows every pass that
\* fails but the last.
RECURSIVE navigation_loop(_, _)
navigation_loop(loads, attempt) ==
  IF attempt >= RETRY_ATTEMPTS
  THEN [loaded |-> TRUE, gotos |-> attempt, sleeps |-> attempt,
        answers |-> SubSeq(loads, 1, attempt),
        delays |-> [i \in 1..attempt |-> RETRY_DELAY]]
  ELSE IF loads[attempt + 1]
  THEN [loaded |-> TRUE, gotos |-> attempt + 1, sleeps |-> attempt,
        answers |-> SubSeq(loads, 1, attempt + 1),
        delays |-> [i \in 1..attempt |-> RETRY_DELAY]]
  ELSE IF attempt < RETRY_ATTEMPTS - 1
  THEN navigation_loop(loads, attempt + 1)
  ELSE [loaded |-> FALSE, gotos |-> attempt + 1, sleeps |-> attempt,
        answers |-> SubSeq(loads, 1, attempt + 1),
        delays |-> [i \in 1..attempt |-> RETRY_DELAY]]

\* What the engine may answer to the passes of one navigation loop.
LoadOutcomes ==
  IF EngineUp THEN [1..RETRY_ATTEMPTS -> BOOLEAN]
  ELSE {[i \in 1..RETRY_ATTEMPTS |-> FALSE]}

\* The record of a navigation loop with the kind of its failures: terminal
\* says that the engine refused the URL as malformed, which it does in every
\* pass alike; any other failure (timeout, network) is transient.  The
\* except clauses of lines 118 and 56 catch Exception and do not tell them
\* apart.
WithKind(done, terminal) ==
  [loaded |-> done.loaded, gotos |-> done.gotos, sleeps |-> done.sleeps,
   answers |-> done.answers, delays |-> done.delays, terminal |-> terminal,
   at |-> "done"]

\* lines 118-125: the except clause of a pass: the pass has failed; the
\* sleep follows unless it was the last pass, which leaves the loop by
\* return plan_data
navigation_pass_failed(n) ==
  LET m == [n EXCEPT !.answers = Append(@, FALSE)]
  IN  IF n.gotos - 1 < RETRY_ATTEMPTS - 1
      THEN [m EXCEPT !.at = "sleep"]
      ELSE [m EXCEPT !.at = "done", !.loaded = FALSE]

\* lines 114-125, one await of the loop answered: plan.goto (line 116),
\* plan.wait_for_load_state (line 117, then break), or asyncio.sleep
\* (line 122), which does not fail
navigation_await(n, ok) ==
  CASE n.at = "goto" ->
         LET m == [n EXCEPT !.gotos = @ + 1]
         IN  IF ok THEN [m EXCEPT !.at = "wait"] ELSE navigation_pass_failed(m)
    [] n.at = "wait" ->
         IF ok
         THEN [n EXCEPT !.answers = Append(@, TRUE), !.loaded = TRUE, !.at = "done"]
         ELSE navigation_pass_failed(n)
    [] n.at = "sleep" ->
         [n EXCEPT !.sleeps = @ + 1, !.delays = Append(@, RETRY_DELAY),
                   !.at = "goto"]

\* What the engine may answer at the await the loop n stands at: a URL it
\* refuses as malformed it refuses in every pass.
LoadAnswers(n) ==
  IF n.at = "sleep" THEN {TRUE}
  ELSE IF EngineUp /\ ~n.terminal THEN BOOLEAN
  ELSE {FALSE}

\* lines 114-125: the navigation loop of scrape_plan, one await per step;
\* the loop is left to line 128 when a pass has loaded the page and by
\* return plan_data (line 125) when the last pass has failed.  The kind of
\* a failure shows at the first goto.
Navigate(w) ==
  /\ pc[w] = "nav" /\ ~TasksCancelled
  /\ \E ok \in LoadAnswers(nav[w]) :
       \E terminal \in (IF provider.counts /\ nav[w].gotos = 0 /\ ~ok
                         THEN BOOLEAN ELSE {nav[w].terminal}) :
         LET n == [navigation_await(nav[w], ok) EXCEPT !.terminal = terminal]
         IN  /\ nav' = [nav EXCEPT ![w] = IF n.at = "done" /\ ~provider.counts
                                          THEN NoNav ELSE n]
             /\ IF n.at # "done"
                THEN UNCHANGED <<pc, ret>>
                ELSE IF n.loaded
                THEN /\ pc' = [pc EXCEPT ![w] = "form"]
                     /\ UNCHANGED ret
                ELSE /\ ret' = [ret EXCEPT ![w] = plan_data[w]]
                     /\ pc' = [pc EXCEPT ![w] = "close"]
  /\ UNCHANGED <<provider, returned, mainVars, collectVars, loc, sem, plan_data, page, result>>

\* A faulty variant of UpdateFromText: monthly_premium is set to "N/A"
\* whatever plan_data holds.  C9 must fail with it.
UpdateFromTextResettingPremium(d, texts) ==
  Put(Put(Put(d, "monthly_premium", NA),
          "medical_required", BoolV(TextHas(texts, "medical"))),
      "smoker_premium_diff", BoolV(TextHas(texts, "smoker")))

\* lines 134-141: plan_data.update(...)
UpdateFromText(d, texts) ==
  Put(Put(Put(d, "monthly_premium", Get(d, "monthly_premium", NA)),
          "medical_required", BoolV(TextHas(texts, "medical"))),
      "smoker_premium_diff", BoolV(TextHas(texts, "smoker")))

\* lines 131-146: all_inner_texts, the update and the normalised return, or the
\* except clause when the read raises.
AllInnerTexts(w) ==
  /\ pc[w] = "text" /\ ~TasksCancelled
  /\ \/ /\ EngineUp
        /\ \E texts \in provider.texts :
             LET updated == UpdateFromText(plan_data[w], texts)
             IN  /\ plan_data' = [plan_data EXCEPT ![w] = updated]
                 /\ ret' = [ret EXCEPT ![w] = parse_maxlife_plan(updated)]
     \/ /\ ret' = [ret EXCEPT ![w] = plan_data[w]]
        /\ UNCHANGED plan_data
  /\ pc' = [pc EXCEPT ![w] = "close"]
  /\ UNCHANGED <<provider, returned, mainVars, collectVars, loc, sem, page, nav, result>>

\* lines 147-149: finally: await plan.close(); the task returns ret, or ends
\* with the fault close raised, the page as the engine left it.
ClosePage(w) ==
  /\ pc[w] = "close" /\ ~TasksCancelled
  /\ \/ /\ page' = [page EXCEPT ![w] = "closed"]
        /\ Leave(w, Returned(ret[w]))
     \/ /\ \E left \in {"open", "closed"} : page' = [page EXCEPT ![w] = left]
        /\ Leave(w, Raised)
  /\ UNCHANGED <<provider, returned, mainVars, collectVars>>

(***************************************************************************)
(* main (lines 1026-1046), start (31-42), close (44-46) and                *)
(* collect_plan_urls (48-80).                                              *)
(***************************************************************************)
EXCLUDED_TERMS == {"calculator", "claim", "settlement", "faqs", "compare"}

\* href.startswith("/term-insurance-plans/")
HasListingPrefix(href) ==
  /\ Len(href) >= Len(ListingPath) + 1
  /\ SubSeq(href, 1, Len(ListingPath) + 1) = ListingPath \o <<"/">>

\* any(bad in href for bad in EXCLUDED_TERMS): a substring test
ContainsExcluded(tok) == tok \in EXCLUDED_TERMS \/ tok = "claims"

HasExcludedTerm(href) == \E i \in 1..Len(href) : ContainsExcluded(href[i])

\* href.split("?")[0]
BeforeQuery(href) ==
  IF \E i \in 1..Len(href) : href[i] = "?"
  THEN SubSeq(href, 1, (CHOOSE i \in 1..Len(href) :
                          href[i] = "?" /\ \A j \in 1..(i-1) : href[j] # "?") - 1)
  ELSE href

\* lines 65-77: the URLs kept from the hrefs read
KeptUrls(hrefs) ==
  { BASE_URL \o BeforeQuery(h) :
      h \in { x \in hrefs : Len(x) > 0 /\ HasListingPrefix(x) /\ ~HasExcludedTerm(x) } }

\* The sequences that list each element of set S once.
Orderings(S) ==
  { f \in [1..Cardinality(S) -> S] : \A i, j \in 1..Cardinality(S) : i # j => f[i] # f[j] }

\* lines 1033-1034: if scraper.limit: plan_urls = list(plan_urls)[:limit].
\* A limit of 0 (or None) is false and nothing is cut; a positive limit
\* keeps the first limit URLs; a negative one drops the last -limit.
Truncate(order, limit) ==
  IF limit = 0 THEN order
  ELSE IF limit > 0
  THEN SubSeq(order, 1, IF limit < Len(order) THEN limit ELSE Len(order))
  ELSE SubSeq(order, 1, IF Len(order) + limit > 0 THEN Len(order) + limit ELSE 0)

\* lines 31-42: start(); the four ways it can end
Start ==
  /\ mainPc = "start"
  /\ \/ /\ driver' = "none" /\ browser' = "none" /\ context' = "none"
        /\ playwright_bound' = FALSE /\ mainPc' = "finally"
     \/ /\ driver' = "running" /\ browser' = "none" /\ context' = "none"
        /\ playwright_bound' = FALSE /\ mainPc' = "finally"
     \/ /\ driver' = "running" /\ browser' = "open" /\ context' = "none"
        /\ playwright_bound' = FALSE /\ mainPc' = "finally"
     \/ /\ driver' = "running" /\ browser' = "open" /\ context' = "open"
        /\ playwright_bound' = TRUE /\ mainPc' = "collect"
  /\ UNCHANGED <<provider, plan_urls, parsed_plans, written, sem, collectVars, workerVars>>

\* line 50: page = await self.context.new_page()
CollectNewPage ==
  /\ mainPc = "collect" /\ cPc = "new_page"
  /\ \/ /\ cPage' = "open" /\ cPc' = "nav" /\ UNCHANGED mainPc
     \/ /\ cPc' = "raised" /\ mainPc' = "finally" /\ UNCHANGED cPage
  /\ UNCHANGED <<provider, driver, browser, context, playwright_bound, plan_urls,
                 parsed_plans, written, sem, cNav, workerVars>>

\* lines 52-63: the navigation loop of collect_plan_urls; when every pass
\* fails, line 63 returns the empty set.  The failures of a loop whose
\* every pass failed are of one kind: some a retry could have cured, or
\* terminal.
CollectNavigate ==
  /\ mainPc = "collect" /\ cPc = "nav"
  /\ \E loads \in LoadOutcomes :
     \E terminal \in (IF \E i \in 1..RETRY_ATTEMPTS : loads[i]
                       THEN {FALSE} ELSE BOOLEAN) :
       LET done == navigation_loop(loads, 0)
       IN  /\ cNav' = WithKind(done, terminal)
           /\ IF done.loaded
              THEN /\ cPc' = "links"
                   /\ UNCHANGED <<mainPc, plan_urls>>
              ELSE /\ cPc' = "done"
                   /\ mainPc' = "dispatch"
                   /\ plan_urls' = <<>>
  /\ UNCHANGED <<provider, driver, browser, context, playwright_bound, parsed_plans,
                 written, sem, cPage, workerVars>>

\* lines 64-80 and 1033-1034: the links are listed and read, the page is
\* closed, and main keeps the first limit URLs of the set in some order.
\* When page.close() (line 79) raises, the page is as the engine left it;
\* when the listing (line 64) raises, the page stays open.
CollectLinks ==
  /\ mainPc = "collect" /\ cPc = "links"
  /\ \/ \E found \in SUBSET provider.hrefs : \E unread \in SUBSET found :
          \E order \in Orderings(KeptUrls(found \ unread)) :
            \/ /\ cPage' = "closed" /\ cPc' = "done"
               /\ plan_urls' = Truncate(order, MainLimit)
               /\ mainPc' = "dispatch"
            \/ /\ cPc' = "raised" /\ mainPc' = "finally"
               /\ \E left \in {"open", "closed"} : cPage' = left
               /\ UNCHANGED plan_urls
     \/ /\ cPc' = "raised" /\ mainPc' = "finally"
        /\ UNCHANGED <<cPage, plan_urls>>
  /\ cNav' = NoNav
  /\ UNCHANGED <<provider, driver, browser, context, playwright_bound, parsed_plans,
                 written, sem, workerVars>>

\* lines 1035-1036: one task per URL, handed to asyncio.gather
Dispatch ==
  /\ mainPc = "dispatch"
  /\ pc' = [w \in Workers |-> IF w <= Len(plan_urls) THEN "waiting" ELSE "idle"]
  /\ mainPc' = "gather"
  /\ cNav' = NoNav
  /\ UNCHANGED <<provider, returned, driver, browser, context, playwright_bound, plan_urls,
                 parsed_plans, written, sem, cPc, cPage, plan_data, page,
                 nav, ret, result, loc>>

Dispatched == 1..Len(plan_urls)

\* line 1036: the list gather returns: the tasks' results in task order
GatherResults == [i \in Dispatched |-> result[i].value]

\* lines 1036-1041: every task returned and the list is written to the
\* file; or open (line 1037) raises and the file is as it was; or the file
\* is opened for writing, which empties it, and json.dump or the flush on
\* leaving the with block raises: what is left is not the list.  The except
\* clause (lines 1040-1041) logs the fault.
GatherReturn ==
  /\ mainPc = "gather"
  /\ \A w \in Dispatched : result[w].kind = "record"
  /\ \/ /\ parsed_plans' = GatherResults
        /\ written' = "whole"
     \/ \E left \in {"refused", "truncated"} :
          /\ written' = left
          /\ UNCHANGED parsed_plans
  /\ mainPc' = "finally"
  /\ UNCHANGED <<provider, driver, browser, context, playwright_bound, plan_urls,
                 sem, collectVars, workerVars>>

\* lines 1036 and 1040-1041: gather raises the fault of a task that raised
GatherRaise ==
  /\ mainPc = "gather"
  /\ \E w \in Dispatched : result[w].kind = "raised"
  /\ mainPc' = "finally"
  /\ UNCHANGED <<provider, driver, browser, context, playwright_bound, plan_urls,
                 parsed_plans, written, sem, collectVars, workerVars>>

\* lines 1043-1044 and 44-46: scraper.close(); a fault of browser.close()
\* ends main
CloseBrowser ==
  /\ mainPc = "finally"
  /\ IF browser = "none"
     THEN mainPc' = "stop" /\ UNCHANGED browser
     ELSE \/ browser' = "closed" /\ mainPc' = "stop"
          \/ \E left \in {"open", "closed"} : browser' = left /\ mainPc' = "done"
  /\ UNCHANGED <<provider, driver, context, playwright_bound, plan_urls,
                 parsed_plans, written, sem, collectVars, workerVars>>

\* lines 1045-1046: playwright.stop() when main's playwright is assigned
StopDriver ==
  /\ mainPc = "stop"
  /\ IF playwright_bound
     THEN \/ driver' = "stopped"
          \/ UNCHANGED driver
     ELSE UNCHANGED driver
  /\ mainPc' = "done"
  /\ UNCHANGED <<provider, browser, context, playwright_bound, plan_urls,
                 parsed_plans, written, sem, collectVars, workerVars>>

\* line 1049: asyncio.run takes main's return (or its fault) and cancels
\* every task that is left
RunReturns ==
  /\ mainPc = "done"
  /\ mainPc' = "over"
  /\ UNCHANGED <<provider, driver, browser, context, playwright_bound, plan_urls,
                 parsed_plans, written, sem, collectVars, workerVars>>

\* The CancelledError is delivered at the await the task stands at.  No
\* except clause of the program catches it.  Waiting for the slot (line
\* 102) the task just ends; at new_page (line 112) plan is still None and
\* the finally clause has nothing to close; at an await of lines 114-131
\* the finally clause (lines 147-149) awaits plan.close(); at that await
\* already, the task ends and the page is as the engine left it.
Cancel(w) ==
  /\ TasksCancelled
  /\ pc[w] \in {"waiting", "new_page", "nav", "form", "text", "close"}
  /\ CASE pc[w] = "waiting" ->
            /\ result' = [result EXCEPT ![w] = Cancelled]
            /\ pc' = [pc EXCEPT ![w] = "done"]
            /\ UNCHANGED <<sem, plan_data, ret, nav, page, loc>>
       [] pc[w] = "new_page" ->
            /\ Leave(w, Cancelled)
            /\ UNCHANGED page
       [] pc[w] \in {"nav", "form", "text"} ->
            /\ pc' = [pc EXCEPT ![w] = "close_cancelled"]
            /\ nav' = [nav EXCEPT ![w] = NoNav]
            /\ Forget(w)
            /\ UNCHANGED <<sem, plan_data, ret, result, page>>
       [] pc[w] = "close" ->
            /\ Leave(w, Cancelled)
            /\ \E left \in {"open", "closed"} : page' = [page EXCEPT ![w] = left]
  /\ UNCHANGED <<provider, returned, mainVars, collectVars>>

\* lines 147-149 in a cancelled task: plan.close() returns and the task
\* ends cancelled, or it raises and the task ends with that fault, the
\* page as the engine left it; the slot is released either way.
CancelledClose(w) ==
  /\ pc[w] = "close_cancelled"
  /\ \/ /\ page' = [page EXCEPT ![w] = "closed"]
        /\ Leave(w, Cancelled)
     \/ /\ \E left \in {"open", "closed"} : page' = [page EXCEPT ![w] = left]
        /\ Leave(w, Raised)
  /\ UNCHANGED <<provider, returned, mainVars, collectVars>>

(***************************************************************************)
(* The form interaction (lines 82-99 and 210-1024) followed call by call.  *)
(* loc[w] holds where worker w stands in it (handler h, step, index i),    *)
(* the local variables of the handlers, and what the interaction has done  *)
(* so far: the variants tried, what each reported, the variants whose      *)
(* submit button was clicked, and the last value written to each field of  *)
(* plan_data.                                                              *)
(***************************************************************************)
At(l, h, step, i) == [l EXCEPT !.h = h, !.step = step, !.i = i]

\* The local variables of a handler that has returned are gone.
ClearLocals(l) ==
  [l EXCEPT !.btn = 0, !.attempt = 0, !.retry_delay = 0, !.proceed_btn = 0,
            !.premium_element = 0, !.found = 0, !.btn_enabled = FALSE,
            !.n = 0, !.cur = NoRider, !.riders = <<>>,
            !.quote_details = EmptyDict, !.addons = <<>>]

\* wrote, cooperative, entered and found are records of what has happened
\* to the item, kept for the properties: the keys the interaction wrote,
\* whether the provider has answered every call so far with success, the
\* handlers after the variant forms that have been called, the number of
\* required fields the variant being run has resolved, and what
\* handle_diabetic_popup returned to its caller ("nothing" before it has).
\* btn_enabled says of the element btn holds whether the wait of lines
\* 653-657 for it to be enabled has returned.  covered counts the attempts
\* of the click loop of handle_modal_form, in the variant being run, in which
\* the overlay check of lines 681-685 answered that the button is covered.

\* A faulty variant of Write: the record is replaced by one that holds the
\* key written and nothing else.  C29 must fail with it.
WriteReplacing(x, k, v) ==
  [l |-> [x.l EXCEPT !.wrote = Put(@, k, v)], d |-> Put(EmptyDict, k, v)]

\* plan_data[k] = v inside the interaction
Write(x, k, v) ==
  [l |-> [x.l EXCEPT !.wrote = Put(@, k, v)], d |-> Put(x.d, k, v)]

\* lines 84, 89, 94: the order in which handle_any_form calls the variants
FormOrder == <<2, 1, 3>>

FormRank(f) == CHOOSE k \in 1..Len(FormOrder) : FormOrder[k] = f

\* The call of handle_form<f>: its first await is the next call made.
StartForm(l, f) ==
  [At(l, "handle_form", "step", 1) EXCEPT !.form = f, !.tried = Append(@, f),
                                          !.covered = 0]

\* A faulty variant of handle_any_form: the next variant is tried also after
\* a success.  C8 must fail with it.
handle_any_form_cascading(l, form_success) ==
  LET r == [ClearLocals(l) EXCEPT
              !.reports = Append(@, [form |-> l.form, success |-> form_success])]
  IN  IF FormRank(l.form) < Len(FormOrder)
      THEN StartForm(r, FormOrder[FormRank(l.form) + 1])
      ELSE [At(r, "handle_any_form", "returned", 0) EXCEPT !.form_success = form_success]

\* lines 82-99, entered where variant l.form has returned form_success
handle_any_form(l, form_success) ==
  LET r == [ClearLocals(l) EXCEPT
              !.reports = Append(@, [form |-> l.form, success |-> form_success])]
  IN  IF form_success
      THEN [At(r, "handle_any_form", "returned", 0) EXCEPT !.form_success = TRUE]
      ELSE IF FormRank(l.form) < Len(FormOrder)
      THEN StartForm(r, FormOrder[FormRank(l.form) + 1])
      ELSE [At(r, "handle_any_form", "returned", 0) EXCEPT !.form_success = FALSE]

\* A variant returns b (lines 250-255, 330-335, 402-407 and every return
\* False of the handlers): handle_any_form goes on from there.
Return(x, b) == [l |-> handle_any_form(x.l, b), d |-> x.d]

Goto(x, h, step, i) == [l |-> At(x.l, h, step, i), d |-> x.d]

\* A handler calls the next one as the last thing it does with its local
\* variables: what the callee returns decides, at most, what it returns.
CallHandler(x, h, step) ==
  [l |-> [At(ClearLocals(x.l), h, step, 0) EXCEPT !.entered = @ \cup {h},
                                                   !.covered = 0],
   d |-> x.d]

(***************************************************************************)
(* The three form variants as the lists of the calls they make.  none says *)
(* what a query that finds nothing leads to: "fail" (return False), "next" *)
(* (the fallback query that follows) or "list" (the labels of the page are *)
(* listed, then return False); skip is the number of steps to advance when *)
(* the call succeeds.                                                      *)
(***************************************************************************)
Call(call, sel, arg) ==
  [call |-> call, sel |-> sel, arg |-> arg, none |-> "fail", skip |-> 1, submit |-> FALSE]

Query(sel) == Call("query_selector", sel, "")

QueryWithFallback(sel) == [Query(sel) EXCEPT !.none = "next", !.skip = 2]

QueryOrListLabels(sel) == [Query(sel) EXCEPT !.none = "list"]

Submit(sel) == [Call("click", sel, "") EXCEPT !.submit = TRUE]

\* lines 210-260
handle_form1 ==
  << Call("wait_for_load_state", "", "networkidle"),
     Call("wait_for_timeout", "", "2000"),
     Query("label[for=\"233\"]"), Call("click", "label[for=\"233\"]", ""),
     Query("label[for=\"239\"]"), Call("click", "label[for=\"239\"]", ""),
     Query("label[for=\"16301\"]"), Call("click", "label[for=\"16301\"]", ""),
     Query("button.gtm-leadform2"), Submit("button.gtm-leadform2"),
     Call("wait_for_timeout", "", "2000") >>

\* lines 262-343; when one of the two labels is not found the labels of the
\* page are listed (lines 298-301 and 316-319, label_listing below)
handle_form2 ==
  << Call("wait_for_load_state", "", "networkidle"),
     Call("wait_for_timeout", "", "2000"),
     Query(".form-container, form.w-full, section.form"),
     Query("#fullName"), Call("fill", "#fullName", "Aditya Jha"),
     Query("input[name=\"dob\"]"), Call("fill", "input[name=\"dob\"]", "01/01/1990"),
     QueryOrListLabels("label[for=\"64762\"]"),
     Call("click", "label[for=\"64762\"]", ""),
     Query("input[name=\"phoneNumber\"]"),
     Call("fill", "input[name=\"phoneNumber\"]", "9876543210"),
     QueryOrListLabels("label[for=\"64764\"]"),
     Call("click", "label[for=\"64764\"]", ""),
     Query("button.gtm-leadform"), Submit("button.gtm-leadform"),
     Call("wait_for_timeout", "", "2000") >>

\* lines 345-412
handle_form3 ==
  << Call("wait_for_load_state", "", "networkidle"),
     Call("wait_for_timeout", "", "2000"),
     Query("#fullName"), Call("fill", "#fullName", "Aditya Jha"),
     Query("input[name=\"dob\"]"), Call("fill", "input[name=\"dob\"]", "01/01/1990"),
     QueryWithFallback("label[for=\"42508\"]"), Query("label[for=\"64762\"]"),
     Call("click", "nri_label", ""),
     QueryWithFallback("input[name=\"phoneNumber\"]"), Query("input#3"),
     Call("fill", "phone_input", "9876543210"),
     QueryWithFallback("label[for=\"16298\"]"), Query("label[for=\"64764\"]"),
     Call("click", "income_label", ""),
     QueryWithFallback("button.gtm-leadform"), Query("button.gtm-leadform2"),
     Submit("submit_button"),
     Call("wait_for_timeout", "", "2000") >>

FormSteps(f) ==
  CASE f = 1 -> handle_form1 [] f = 2 -> handle_form2 [] f = 3 -> handle_form3

\* lines 298-302 and 314-320: a label of handle_form2 was not found:
\* query_selector_all('label[for]'), then inner_html() of each label found,
\* then return False; a fault of either is caught at line 336, which returns
\* False as well.
label_listing(x, o) ==
  LET ok == o.r = "ok"
      H == "label_listing"
  IN  CASE x.l.step = "query_all" ->
             IF ok /\ o.n > 0
             THEN Goto([x EXCEPT !.l.n = o.n], H, "inner_html", 1)
             ELSE Return(x, FALSE)
        [] x.l.step = "inner_html" ->
             IF ok /\ x.l.i < x.l.n THEN Goto(x, H, "inner_html", x.l.i + 1)
             ELSE Return(x, FALSE)

\* One call of a variant answered with o: a fault or a required field not
\* found returns False; after the last call handle_modal_form is called.
\* A faulty variant of handle_form_step: a required field that is not found
\* is passed over, its fill or click left out, and the handler goes on to
\* the next field.  C19 must fail with it.
handle_form_step_passing_over(x, o) ==
  LET steps == FormSteps(x.l.form)
      s == steps[x.l.i]
      done == IF s.submit
              THEN [x EXCEPT !.l.submitted = @ \cup {x.l.form}]
              ELSE x
      resolved == IF s.call = "query_selector"
                  THEN [done EXCEPT !.l.found = @ + 1]
                  ELSE done
  IN  CASE o.r = "exc" -> Return(x, FALSE)
        [] o.r = "none" ->
             IF s.none = "next" THEN Goto(x, "handle_form", "step", x.l.i + 1)
             ELSE IF steps[x.l.i + 1].call = "query_selector"
             THEN Goto(x, "handle_form", "step", x.l.i + 1)
             ELSE Goto(x, "handle_form", "step", x.l.i + 2)
        [] o.r = "ok" ->
             IF x.l.i + s.skip > Len(steps)
             THEN CallHandler(resolved, "handle_modal_form", "load")
             ELSE Goto(resolved, "handle_form", "step", x.l.i + s.skip)

handle_form_step(x, o) ==
  LET steps == FormSteps(x.l.form)
      s == steps[x.l.i]
      done == IF s.submit
              THEN [x EXCEPT !.l.submitted = @ \cup {x.l.form}]
              ELSE x
      resolved == IF s.call = "query_selector"
                  THEN [done EXCEPT !.l.found = @ + 1]
                  ELSE done
  IN  CASE o.r = "exc" -> Return(x, FALSE)
        [] o.r = "none" ->
             IF s.none = "next" THEN Goto(x, "handle_form", "step", x.l.i + 1)
             ELSE IF s.none = "list" THEN Goto(x, "label_listing", "query_all", 0)
             ELSE Return(x, FALSE)
        [] o.r = "ok" ->
             IF x.l.i + s.skip > Len(steps)
             THEN CallHandler(resolved, "handle_modal_form", "load")
             ELSE Goto(resolved, "handle_form", "step", x.l.i + s.skip)

(***************************************************************************)
(* handle_modal_form (lines 581-765).                                      *)
(***************************************************************************)
\* lines 587-621: the four labels of the modal, each queried and clicked
modal_labels ==
  << "label[for=\"gender_F\"]", "label[for=\"tobacco_No\"]",
     "label[for=\"occupation_salaried\"]",
     "label[for=\"education_graduateAndAbove\"]" >>

\* lines 637-643
modal_selectors ==
  << "button#viewPlans", "button:has-text(\"Check Coverage\")",
     "button.gtm-leadform", "button[type=\"submit\"]", "button.btn-primary" >>

\* lines 668-669 and 514-515
max_retries == 3
InitialRetryDelay == 1000

\* The click loop is entered: attempt 0 of range(max_retries)
StartClickLoop(x, h) ==
  Goto([x EXCEPT !.l.attempt = 0, !.l.retry_delay = InitialRetryDelay],
       h, "scroll", 0)

\* A faulty variant of NextAttempt: the delay is not doubled.  C27 must fail
\* with it.
NextAttemptSameDelay(x, h) ==
  Goto([x EXCEPT !.l.attempt = @ + 1], h, "scroll", 0)

\* retry_delay *= 2; continue
NextAttempt(x, h) ==
  Goto([x EXCEPT !.l.attempt = @ + 1, !.l.retry_delay = @ * 2], h, "scroll", 0)

\* lines 659-665: the selector tried gave no usable button; the next one is
\* tried, and after the last one the loop goes on with whatever btn holds
modal_next_selector(x) ==
  IF x.l.i < Len(modal_selectors)
  THEN Goto(x, "handle_modal_form", "find", x.l.i + 1)
  ELSE IF x.l.btn = 0 THEN Return(x, FALSE)
  ELSE StartClickLoop(x, "handle_modal_form")

\* lines 733-740 (and 563-570): a fault inside an attempt
click_round_failed(x, h) ==
  IF x.l.attempt < max_retries - 1 THEN Goto(x, h, "round_delay", 0)
  ELSE Return(x, FALSE)

\* lines 722-732 (and 553-562): the three click methods all failed
click_methods_failed(x, h) ==
  IF x.l.attempt < max_retries - 1 THEN Goto(x, h, "failed_delay", 0)
  ELSE Return(x, FALSE)

\* A faulty variant of modal_covered: the button found covered is clicked
\* all the same.  C34 must fail with it.
modal_covered_clicked_anyway(x) ==
  Goto([x EXCEPT !.l.covered = @ + 1], "handle_modal_form", "click", 0)

\* lines 687-693: the button is covered by an overlay; the attempt ends
\* there, with the delay before the next one or, in the last one, with
\* return False
modal_covered(x) ==
  LET y == [x EXCEPT !.l.covered = @ + 1]
  IN  IF x.l.attempt < max_retries - 1
      THEN Goto(y, "handle_modal_form", "covered_delay", 0)
      ELSE Return(y, FALSE)

handle_modal_form(x, o) ==
  LET s == x.l.step
      ok == o.r = "ok"
      H == "handle_modal_form"
  IN  CASE s = "load" ->
             IF ok THEN Goto(x, H, "timeout", 0) ELSE Return(x, FALSE)
        [] s = "timeout" ->
             IF ok THEN Goto(x, H, "query_label", 1) ELSE Return(x, FALSE)
        [] s = "query_label" ->
             IF ok THEN Goto(x, H, "click_label", x.l.i) ELSE Return(x, FALSE)
        [] s = "click_label" ->
             IF ~ok THEN Return(x, FALSE)
             ELSE IF x.l.i < Len(modal_labels)
             THEN Goto(x, H, "query_label", x.l.i + 1)
             ELSE Goto(x, H, "wait_modal", 0)
        [] s = "wait_modal" ->
             IF ok THEN Goto(x, H, "wait_spinner", 0) ELSE Return(x, FALSE)
        [] s = "wait_spinner" ->
             IF ok THEN Goto(x, H, "settle", 0) ELSE Return(x, FALSE)
        [] s = "settle" ->
             IF ok THEN Goto([x EXCEPT !.l.btn = 0], H, "find", 1)
             ELSE Return(x, FALSE)
        \* line 649: btn is assigned only when wait_for_selector returns
        [] s = "find" ->
             IF ok
             THEN Goto([x EXCEPT !.l.btn = x.l.i, !.l.btn_enabled = FALSE],
                       H, "enabled", x.l.i)
             ELSE modal_next_selector(x)
        \* lines 653-658: wait_for_function, then break
        [] s = "enabled" ->
             IF ok THEN StartClickLoop([x EXCEPT !.l.btn_enabled = TRUE], H)
             ELSE modal_next_selector(x)
        [] s = "scroll" ->
             IF ok THEN Goto(x, H, "hover", 0) ELSE click_round_failed(x, H)
        [] s = "hover" ->
             IF ok THEN Goto(x, H, "hover_wait", 0) ELSE click_round_failed(x, H)
        [] s = "hover_wait" ->
             IF ok THEN Goto(x, H, "is_clickable", 0) ELSE click_round_failed(x, H)
        \* lines 681-693
        [] s = "is_clickable" ->
             IF ~ok THEN click_round_failed(x, H)
             ELSE IF o.v.v THEN Goto(x, H, "click", 0)
             ELSE modal_covered(x)
        [] s = "covered_delay" ->
             IF ok THEN NextAttempt(x, H) ELSE click_round_failed(x, H)
        \* lines 696-732: click, dispatch_event, evaluate; the wait that
        \* follows a method is inside the same try as the method
        [] s = "click" ->
             IF ok THEN Goto(x, H, "click_wait", 0) ELSE Goto(x, H, "dispatch", 0)
        [] s = "click_wait" ->
             IF ok THEN Goto(x, H, "wait_final", 0) ELSE Goto(x, H, "dispatch", 0)
        [] s = "dispatch" ->
             IF ok THEN Goto(x, H, "dispatch_wait", 0) ELSE Goto(x, H, "js", 0)
        [] s = "dispatch_wait" ->
             IF ok THEN Goto(x, H, "wait_final", 0) ELSE Goto(x, H, "js", 0)
        [] s = "js" ->
             IF ok THEN Goto(x, H, "js_wait", 0) ELSE click_methods_failed(x, H)
        [] s = "js_wait" ->
             IF ok THEN Goto(x, H, "wait_final", 0) ELSE click_methods_failed(x, H)
        [] s = "failed_delay" ->
             IF ok THEN NextAttempt(x, H) ELSE click_round_failed(x, H)
        \* line 736; its fault is caught at line 741
        [] s = "round_delay" ->
             IF ok THEN NextAttempt(x, H) ELSE Return(x, FALSE)
        \* lines 746-752
        [] s = "wait_final" ->
             IF ok THEN Goto(x, H, "final_wait", 0) ELSE Return(x, FALSE)
        \* line 755: handle_final_form_and_extract_premium is called and its
        \* first value returned (line 760)
        [] s = "final_wait" ->
             IF ok THEN CallHandler(x, "handle_final_form_and_extract_premium", "load")
             ELSE Return(x, FALSE)

(***************************************************************************)
(* handle_final_form_and_extract_premium (lines 414-579).                  *)
(***************************************************************************)
\* lines 423-428
final_form_selectors ==
  << ".jsx-1782489574", "form[class*=\"form\"]", "div[class*=\"form\"]",
     "section[class*=\"form\"]" >>

\* lines 468-473 (the rupee sign of the last selector is written Rs)
premium_selectors ==
  << "label[for=\"75\"] .premium", ".premium", "[class*=\"premium\"]",
     "span:has-text(\"Rs\")" >>

\* lines 492-497
proceed_selectors ==
  << "button#viewPlans", "button:has-text(\"Proceed\")",
     "button[type=\"submit\"]", "button.btn-primary" >>

\* lines 474-484: the next premium selector, or on to the Proceed button
next_premium_selector(x) ==
  IF x.l.i < Len(premium_selectors)
  THEN Goto(x, "handle_final_form_and_extract_premium", "premium", x.l.i + 1)
  ELSE Goto([x EXCEPT !.l.proceed_btn = 0],
            "handle_final_form_and_extract_premium", "proceed", 1)

\* lines 531-532, 541-542, 551-552: handle_diabetic_popup is called and,
\* whatever it returns, True is returned
CallPopup(x) == CallHandler(x, "handle_diabetic_popup", "wait_popup")

handle_final_form_and_extract_premium(x, o) ==
  LET s == x.l.step
      ok == o.r = "ok"
      H == "handle_final_form_and_extract_premium"
      ToPremium == Goto(x, H, "premium", 1)
  IN  CASE s = "load" ->
             IF ok THEN Goto(x, H, "timeout", 0) ELSE Return(x, FALSE)
        [] s = "timeout" ->
             IF ok THEN Goto(x, H, "form", 1) ELSE Return(x, FALSE)
        \* lines 430-440
        [] s = "form" ->
             IF ok THEN Goto(x, H, "form_wait", 0)
             ELSE IF x.l.i < Len(final_form_selectors)
             THEN Goto(x, H, "form", x.l.i + 1)
             ELSE Return(x, FALSE)
        [] s = "form_wait" ->
             IF ok THEN Goto(x, H, "query_cover", 0) ELSE Return(x, FALSE)
        \* lines 450-459: the cover option; nothing here ends the handler
        [] s = "query_cover" ->
             IF ok THEN Goto(x, H, "click_cover", 0) ELSE ToPremium
        [] s = "click_cover" ->
             IF ok THEN Goto(x, H, "cover_wait", 0) ELSE ToPremium
        [] s = "cover_wait" -> ToPremium
        \* lines 474-484
        [] s = "premium" ->
             IF ok THEN Goto([x EXCEPT !.l.premium_element = x.l.i],
                             H, "premium_text", x.l.i)
             ELSE next_premium_selector(x)
        [] s = "premium_text" ->
             IF ok
             THEN Goto(Write([x EXCEPT !.l.proceed_btn = 0], "monthly_premium", o.v),
                       H, "proceed", 1)
             ELSE next_premium_selector(x)
        \* lines 500-511
        [] s = "proceed" ->
             IF ok THEN StartClickLoop([x EXCEPT !.l.proceed_btn = x.l.i], H)
             ELSE IF x.l.i < Len(proceed_selectors)
             THEN Goto(x, H, "proceed", x.l.i + 1)
             ELSE Return(x, FALSE)
        \* lines 517-570
        [] s = "scroll" ->
             IF ok THEN Goto(x, H, "hover", 0) ELSE click_round_failed(x, H)
        [] s = "hover" ->
             IF ok THEN Goto(x, H, "hover_wait", 0) ELSE click_round_failed(x, H)
        [] s = "hover_wait" ->
             IF ok THEN Goto(x, H, "click", 0) ELSE click_round_failed(x, H)
        [] s = "click" ->
             IF ok THEN Goto(x, H, "click_wait", 0) ELSE Goto(x, H, "dispatch", 0)
        [] s = "click_wait" ->
             IF ok THEN CallPopup(x) ELSE Goto(x, H, "dispatch", 0)
        [] s = "dispatch" ->
             IF ok THEN Goto(x, H, "dispatch_wait", 0) ELSE Goto(x, H, "js", 0)
        [] s = "dispatch_wait" ->
             IF ok THEN CallPopup(x) ELSE Goto(x, H, "js", 0)
        [] s = "js" ->
             IF ok THEN Goto(x, H, "js_wait", 0) ELSE click_methods_failed(x, H)
        [] s = "js_wait" ->
             IF ok THEN CallPopup(x) ELSE click_methods_failed(x, H)
        [] s = "failed_delay" ->
             IF ok THEN NextAttempt(x, H) ELSE click_round_failed(x, H)
        \* line 566; its fault is caught at line 571
        [] s = "round_delay" ->
             IF ok THEN NextAttempt(x, H) ELSE Return(x, FALSE)

(***************************************************************************)
(* handle_diabetic_popup (lines 767-791).  It returns True or False and    *)
(* never raises; its caller returns True in either case.                   *)
(***************************************************************************)
\* handle_diabetic_popup returns b; its caller returns True (lines 531-532)
PopupReturns(x, b) ==
  Return([x EXCEPT !.l.popup_returned = IF b THEN "True" ELSE "False"], TRUE)

\* A faulty variant of handle_diabetic_popup: it returns once the popup is
\* dealt with and never calls extract_add_on_riders.  C16 must fail with it.
handle_diabetic_popup_without_riders(x, o) ==
  LET s == x.l.step
      ok == o.r = "ok"
      H == "handle_diabetic_popup"
  IN  CASE s = "wait_popup" ->
             IF ok THEN Goto(x, H, "wait_button", 0) ELSE PopupReturns(x, TRUE)
        [] s = "wait_button" ->
             IF ok THEN Goto(x, H, "click", 0) ELSE PopupReturns(x, FALSE)
        [] s = "click" ->
             IF ok THEN Goto(x, H, "click_wait", 0) ELSE PopupReturns(x, FALSE)
        [] s = "click_wait" -> PopupReturns(x, ok)

\* A faulty variant of handle_diabetic_popup: a popup that does not appear is
\* reported as a failure.  C20 must fail with it.
handle_diabetic_popup_required(x, o) ==
  LET s == x.l.step
      ok == o.r = "ok"
      H == "handle_diabetic_popup"
  IN  CASE s = "wait_popup" ->
             IF ok THEN Goto(x, H, "wait_button", 0) ELSE PopupReturns(x, FALSE)
        [] s = "wait_button" ->
             IF ok THEN Goto(x, H, "click", 0) ELSE PopupReturns(x, FALSE)
        [] s = "click" ->
             IF ok THEN Goto(x, H, "click_wait", 0) ELSE PopupReturns(x, FALSE)
        [] s = "click_wait" ->
             IF ok
             THEN CallHandler([x EXCEPT !.l.popup_returned = "True"],
                              "extract_add_on_riders", "wait_container")
             ELSE PopupReturns(x, FALSE)

handle_diabetic_popup(x, o) ==
  LET s == x.l.step
      ok == o.r = "ok"
      H == "handle_diabetic_popup"
  IN  CASE s = "wait_popup" ->
             \* lines 774-776: no popup is not an error
             IF ok THEN Goto(x, H, "wait_button", 0) ELSE PopupReturns(x, TRUE)
        \* lines 778-788
        [] s = "wait_button" ->
             IF ok THEN Goto(x, H, "click", 0) ELSE PopupReturns(x, FALSE)
        [] s = "click" ->
             IF ok THEN Goto(x, H, "click_wait", 0) ELSE PopupReturns(x, FALSE)
        \* lines 784-785: extract_add_on_riders is called and, whatever it
        \* returns, True is returned
        [] s = "click_wait" ->
             IF ok
             THEN CallHandler([x EXCEPT !.l.popup_returned = "True"],
                              "extract_add_on_riders", "wait_container")
             ELSE PopupReturns(x, FALSE)

(***************************************************************************)
(* extract_add_on_riders (lines 793-863).  Whatever it returns, its caller *)
(* handle_diabetic_popup returns True.                                     *)
(***************************************************************************)
\* not v, for v a str or None
Falsy(v) == v = NoneV \/ v = StrV(<<>>)

\* lines 830-837: the rider is appended; after the last card the list is
\* written to plan_data
append_rider(x) ==
  LET riders == Append(x.l.riders, x.l.cur)
      y == [x EXCEPT !.l.riders = riders, !.l.cur = NoRider]
  IN  IF x.l.i < x.l.n
      THEN Goto(y, "extract_add_on_riders", "query_name", x.l.i + 1)
      ELSE Goto(Write(y, "add_on_riders", ListV(riders)),
                "extract_add_on_riders", "wait_skip", 0)

\* line 821
after_rider_fields(x) ==
  IF Falsy(x.l.cur.name) /\ Falsy(x.l.cur.coverage) /\ Falsy(x.l.cur.premium)
  THEN Goto(x, "extract_add_on_riders", "card_html", x.l.i)
  ELSE append_rider(x)

extract_add_on_riders(x, o) ==
  LET s == x.l.step
      ok == o.r = "ok"
      H == "extract_add_on_riders"
  IN  CASE s = "wait_container" ->
             IF ok THEN Goto(x, H, "cards", 0) ELSE Return(x, TRUE)
        \* lines 798-800
        [] s = "cards" ->
             IF ~ok THEN Return(x, TRUE)
             ELSE IF o.n = 0
             THEN Goto(Write([x EXCEPT !.l.riders = <<>>], "add_on_riders", ListV(<<>>)),
                       H, "wait_skip", 0)
             ELSE Goto([x EXCEPT !.l.riders = <<>>, !.l.n = o.n, !.l.cur = NoRider],
                       H, "query_name", 1)
        \* lines 802-819: a field not found or a fault leaves the field None
        [] s = "query_name" ->
             IF ok THEN Goto(x, H, "name_text", x.l.i)
             ELSE Goto(x, H, "query_coverage", x.l.i)
        [] s = "name_text" ->
             Goto([x EXCEPT !.l.cur.name = IF ok THEN o.v ELSE NoneV],
                  H, "query_coverage", x.l.i)
        [] s = "query_coverage" ->
             IF ok THEN Goto(x, H, "coverage_text", x.l.i)
             ELSE Goto(x, H, "query_premium", x.l.i)
        [] s = "coverage_text" ->
             Goto([x EXCEPT !.l.cur.coverage = IF ok THEN o.v ELSE NoneV],
                  H, "query_premium", x.l.i)
        [] s = "query_premium" ->
             IF ok THEN Goto(x, H, "premium_text", x.l.i)
             ELSE after_rider_fields(x)
        [] s = "premium_text" ->
             after_rider_fields([x EXCEPT !.l.cur.premium = IF ok THEN o.v ELSE NoneV])
        \* lines 822-829: logged only
        [] s = "card_html" ->
             IF ok THEN Goto(x, H, "card_text", x.l.i) ELSE append_rider(x)
        [] s = "card_text" -> append_rider(x)
        \* lines 840-860
        [] s = "wait_skip" ->
             IF ok THEN Goto(x, H, "click_skip", 0) ELSE Return(x, TRUE)
        [] s = "click_skip" ->
             IF ok THEN Goto(x, H, "skip_wait", 0) ELSE Return(x, TRUE)
        \* line 850: handle_final_details_form is called
        [] s = "skip_wait" ->
             IF ok THEN CallHandler(x, "handle_final_details_form", "wait_first")
             ELSE Return(x, TRUE)

(***************************************************************************)
(* handle_final_details_form (lines 946-1024).  Its caller                 *)
(* extract_add_on_riders only logs what it returns.                        *)
(***************************************************************************)
\* lines 953-973: the fields filled, in order
details_fields ==
  << [sel |-> "input#firstName", text |-> "Aditya"],
     [sel |-> "input#middleName", text |-> "Kumar"],
     [sel |-> "input#lastName", text |-> "Jha"],
     [sel |-> "input#email", text |-> "aditya.jha@gmail.com"],
     [sel |-> "input#eligibilityAnnualIncome", text |-> "700000"],
     [sel |-> "input#pincode", text |-> "110001"] >>

handle_final_details_form(x, o) ==
  LET s == x.l.step
      ok == o.r = "ok"
      H == "handle_final_details_form"
  IN  CASE s = "wait_first" ->
             IF ok THEN Goto(x, H, "fill", 1) ELSE Return(x, TRUE)
        [] s = "fill" ->
             IF ~ok THEN Return(x, TRUE)
             ELSE IF x.l.i < Len(details_fields) THEN Goto(x, H, "fill", x.l.i + 1)
             ELSE Goto(x, H, "settle", 0)
        [] s = "settle" ->
             IF ok THEN Goto(x, H, "query_checkbox", 0) ELSE Return(x, TRUE)
        \* lines 980-986
        [] s = "query_checkbox" ->
             IF ok THEN Goto(x, H, "click_checkbox", 0)
             ELSE Goto(x, H, "query_submit", 0)
        [] s = "click_checkbox" -> Goto(x, H, "query_submit", 0)
        \* lines 989-998
        [] s = "query_submit" ->
             IF ok THEN Goto(x, H, "click_submit", 0)
             ELSE Goto(x, H, "wait_proceed", 0)
        [] s = "click_submit" ->
             IF ok THEN Goto(x, H, "submit_wait", 0)
             ELSE Goto(x, H, "wait_proceed", 0)
        [] s = "submit_wait" -> Goto(x, H, "wait_proceed", 0)
        \* lines 1001-1021
        [] s = "wait_proceed" ->
             IF ok THEN Goto(x, H, "click_proceed", 0) ELSE Return(x, TRUE)
        [] s = "click_proceed" ->
             IF ok THEN Goto(x, H, "proceed_wait", 0) ELSE Return(x, TRUE)
        \* line 1011: extract_final_quote_details is called
        [] s = "proceed_wait" ->
             IF ok THEN CallHandler(x, "extract_final_quote_details", "wait_card")
             ELSE Return(x, TRUE)

(***************************************************************************)
(* extract_final_quote_details (lines 865-944).  A fault anywhere returns  *)
(* None and the details read so far are dropped; its caller                *)
(* handle_final_details_form returns True in either case.                  *)
(***************************************************************************)
\* lines 874-936: the fields read, in order; add_ons (lines 904-912) comes
\* after the fifth
quote_fields ==
  << [key |-> "equote_number",
      sel |-> "div.jsx-933454567.middle.sec.undefined.text-xs.data-value span"],
     [key |-> "policy_name",
      sel |-> "div.jsx-933454567.middle.sec.undefined.text-sm.data-value span"],
     [key |-> "life_cover",
      sel |-> "div.jsx-933454567.middle.sec.undefined.text-sm.data-value span:has-text(\"Rs\")"],
     [key |-> "cover_till_age",
      sel |-> "div.jsx-933454567.middle.sec.undefined.text-sm.data-value span:has-text(\"yrs\")"],
     [key |-> "base_premium",
      sel |-> "div.jsx-933454567.middle.sec.undefined.text-sm.data-value span.font-weight-bold"],
     [key |-> "base_plus_addons",
      sel |-> "div.jsx-933454567.baseAddOns span.font-weight-semi-bold"],
     [key |-> "gst_amount",
      sel |-> "div.jsx-933454567:has-text(\"GST Amount\") + div span.font-weight-semi-bold"],
     [key |-> "total_amount",
      sel |-> "div.jsx-1297005779.flex.justify-between.py-3 p.text-sm.font-bold.discount-summary-label:last-child"],
     [key |-> "premium_from_second_year",
      sel |-> "div.jsx-1297005779.flex.justify-between.py-3.border-t p.text-sm.font-bold.discount-summary-label:last-child"] >>

FieldsBeforeAddOns == 5

\* "Monthly Add-ons" in s
ContainsMonthlyAddOns(s) ==
  \E i \in 1..Len(s) :
    /\ i + 4 <= Len(s)
    /\ SubSeq(s, i, i + 4) = <<"Monthly", " ", "Add", "-", "ons">>

\* What follows field i of quote_fields
next_quote_field(x) ==
  IF x.l.i = FieldsBeforeAddOns
  THEN Goto(x, "extract_final_quote_details", "addons", 0)
  ELSE IF x.l.i < Len(quote_fields)
  THEN Goto(x, "extract_final_quote_details", "query_field", x.l.i + 1)
  ELSE Return(Write(x, "quote_details", DictV(x.l.quote_details)), TRUE)

\* line 911: quote_details['add_ons'] = addons
put_add_ons(x, addons) ==
  Goto([x EXCEPT !.l.quote_details = Put(@, "add_ons", ListV(addons)),
                 !.l.addons = <<>>, !.l.n = 0],
       "extract_final_quote_details", "query_field", FieldsBeforeAddOns + 1)

extract_final_quote_details(x, o) ==
  LET s == x.l.step
      ok == o.r = "ok"
      H == "extract_final_quote_details"
  IN  CASE s = "wait_card" ->
             IF ok THEN Goto([x EXCEPT !.l.quote_details = EmptyDict], H, "query_field", 1)
             ELSE Return(x, TRUE)
        [] s = "query_field" ->
             IF ok THEN Goto(x, H, "field_text", x.l.i)
             ELSE IF o.r = "none" THEN next_quote_field(x)
             ELSE Return(x, TRUE)
        [] s = "field_text" ->
             IF ok
             THEN next_quote_field(
                    [x EXCEPT !.l.quote_details = Put(@, quote_fields[x.l.i].key, o.v)])
             ELSE Return(x, TRUE)
        \* lines 905-911
        [] s = "addons" ->
             IF ~ok THEN Return(x, TRUE)
             ELSE IF o.n = 0 THEN put_add_ons(x, <<>>)
             ELSE Goto([x EXCEPT !.l.addons = <<>>, !.l.n = o.n], H, "addon_text", 1)
        [] s = "addon_text" ->
             IF ~ok THEN Return(x, TRUE)
             ELSE LET addons == IF ~Falsy(o.v) /\ ~ContainsMonthlyAddOns(o.v.v)
                                THEN Append(x.l.addons, o.v)
                                ELSE x.l.addons
                  IN  IF x.l.i < x.l.n
                      THEN Goto([x EXCEPT !.l.addons = addons], H, "addon_text", x.l.i + 1)
                      ELSE put_add_ons(x, addons)

(***************************************************************************)
(* The call into the engine made at each position.                         *)
(***************************************************************************)
Wait(ms) == Call("wait_for_timeout", "", ms)

WaitFor(sel, state, timeout) ==
  Call("wait_for_selector", sel, [state |-> state, timeout |-> timeout])

\* The click loops of lines 671-740 (btn) and 517-570 (proceed_btn)
click_loop_call(l, target, after_click) ==
  LET s == l.step
  IN  CASE s = "scroll" -> Call("scroll_into_view_if_needed", target, "")
        [] s = "hover" -> Call("hover", target, "")
        [] s = "hover_wait" -> Wait(500)
        [] s = "is_clickable" -> Call("evaluate", target, "is_clickable")
        [] s = "click" -> Call("click", target, 5000)
        [] s = "dispatch" -> Call("dispatch_event", target, "click")
        [] s = "js" -> Call("evaluate", target, "click")
        [] s \in {"click_wait", "dispatch_wait", "js_wait"} -> Wait(after_click)
        [] s \in {"covered_delay", "failed_delay", "round_delay"} -> Wait(l.retry_delay)

handle_modal_form_call(l) ==
  LET s == l.step
  IN  CASE s = "load" -> Call("wait_for_load_state", "", "networkidle")
        [] s = "timeout" -> Wait(2000)
        [] s = "query_label" -> Query(modal_labels[l.i])
        [] s = "click_label" -> Call("click", modal_labels[l.i], "")
        [] s = "wait_modal" -> WaitFor(".modal-content, .modal-dialog", "visible", 5000)
        [] s = "wait_spinner" -> WaitFor(".loading, .spinner, .loader", "hidden", 5000)
        [] s = "settle" -> Wait(1000)
        [] s = "find" -> WaitFor(modal_selectors[l.i], "visible", 2000)
        [] s = "enabled" -> Call("wait_for_function", modal_selectors[l.i], 5000)
        [] s = "wait_final" -> WaitFor(".jsx-1782489574", "visible", 5000)
        [] s = "final_wait" -> Wait(2000)
        [] OTHER -> click_loop_call(l, modal_selectors[l.btn], 1000)

handle_final_form_call(l) ==
  LET s == l.step
  IN  CASE s = "load" -> Call("wait_for_load_state", "", "networkidle")
        [] s = "timeout" -> Wait(2000)
        [] s = "form" -> WaitFor(final_form_selectors[l.i], "visible", 2000)
        [] s = "form_wait" -> Wait(2000)
        [] s = "query_cover" -> Query("label[for=\"75\"]")
        [] s = "click_cover" -> Call("click", "label[for=\"75\"]", "")
        [] s = "cover_wait" -> Wait(1000)
        [] s = "premium" -> WaitFor(premium_selectors[l.i], "visible", 2000)
        [] s = "premium_text" -> Call("inner_text", premium_selectors[l.i], "premium")
        [] s = "proceed" -> WaitFor(proceed_selectors[l.i], "visible", 2000)
        [] OTHER -> click_loop_call(l, proceed_selectors[l.proceed_btn], 2000)

handle_diabetic_popup_call(l) ==
  LET s == l.step
  IN  CASE s = "wait_popup" -> WaitFor("div.rider-popup-content", "visible", 3000)
        [] s = "wait_button" ->
             WaitFor("div.rider-popup-content button#viewPlans", "visible", 3000)
        [] s = "click" -> Call("click", "div.rider-popup-content button#viewPlans", "")
        [] s = "click_wait" -> Wait(1000)

extract_add_on_riders_call(l) ==
  LET s == l.step
  IN  CASE s = "wait_container" -> WaitFor("div.rider-container", "visible", 8000)
        [] s = "cards" -> Call("query_selector_all", "div.rider-container .rider-card", "")
        [] s = "query_name" -> Query("span.title")
        [] s = "name_text" -> Call("inner_text", "span.title", "rider")
        [] s = "query_coverage" -> Query(".coverage-amount")
        [] s = "coverage_text" -> Call("inner_text", ".coverage-amount", "rider")
        [] s = "query_premium" -> Query(".rider-premium")
        [] s = "premium_text" -> Call("inner_text", ".rider-premium", "rider")
        [] s = "card_html" -> Call("inner_html", ".rider-card", "")
        [] s = "card_text" -> Call("inner_text", ".rider-card", "rider")
        [] s = "wait_skip" -> WaitFor("button#viewPlans", "visible", 5000)
        [] s = "click_skip" -> Call("click", "button#viewPlans", "")
        [] s = "skip_wait" -> Wait(2000)

handle_final_details_form_call(l) ==
  LET s == l.step
  IN  CASE s = "wait_first" -> WaitFor("input#firstName", "visible", 5000)
        [] s = "fill" -> Call("fill", details_fields[l.i].sel, details_fields[l.i].text)
        [] s = "settle" -> Wait(1000)
        [] s = "query_checkbox" -> Query("input[type=\"checkbox\"]")
        [] s = "click_checkbox" -> Call("click", "input[type=\"checkbox\"]", "")
        [] s = "query_submit" -> Query("button[type=\"submit\"]")
        [] s = "click_submit" -> Call("click", "button[type=\"submit\"]", "")
        [] s = "submit_wait" -> Wait(2000)
        [] s = "wait_proceed" ->
             WaitFor("button#viewPlans.unified-button-primary", "visible", 5000)
        [] s = "click_proceed" ->
             Call("click", "button#viewPlans.unified-button-primary", "")
        [] s = "proceed_wait" -> Wait(2000)

extract_final_quote_details_call(l) ==
  LET s == l.step
  IN  CASE s = "wait_card" -> WaitFor("div.jsx-1807434918.px-2.card", "visible", 5000)
        [] s = "query_field" -> Query(quote_fields[l.i].sel)
        [] s = "field_text" -> Call("inner_text", quote_fields[l.i].sel, "quote")
        [] s = "addons" ->
             Call("query_selector_all", "div.jsx-933454567.accordion-title span", "")
        [] s = "addon_text" ->
             Call("inner_text", "div.jsx-933454567.accordion-title span", "addon")

label_listing_call(l) ==
  IF l.step = "query_all" THEN Call("query_selector_all", "label[for]", "")
  ELSE Call("inner_html", "label[for]", "")

CallAt(l) ==
  CASE l.h = "handle_form" -> FormSteps(l.form)[l.i]
    [] l.h = "label_listing" -> label_listing_call(l)
    [] l.h = "handle_modal_form" -> handle_modal_form_call(l)
    [] l.h = "handle_final_form_and_extract_premium" -> handle_final_form_call(l)
    [] l.h = "handle_diabetic_popup" -> handle_diabetic_popup_call(l)
    [] l.h = "extract_add_on_riders" -> extract_add_on_riders_call(l)
    [] l.h = "handle_final_details_form" -> handle_final_details_form_call(l)
    [] l.h = "extract_final_quote_details" -> extract_final_quote_details_call(l)

\* What the engine may answer to a call: it returns (ok, with the value read
\* where the call reads one), finds nothing (none), or raises (exc).
Answer(r) == [r |-> r, v |-> NoneV, n |-> 0]

Outcomes(c) ==
  CASE c.call = "query_selector" ->
         IF c.sel \in provider.present THEN {Answer("ok"), Answer("exc")}
         ELSE {Answer("ok"), Answer("none"), Answer("exc")}
    [] c.call = "query_selector_all" ->
         {[Answer("ok") EXCEPT !.n = k] : k \in 0..provider.items} \cup {Answer("exc")}
    [] c.call = "inner_text" ->
         {[Answer("ok") EXCEPT !.v = t] : t \in provider.inner_texts[c.arg]}
           \cup {Answer("exc")}
    [] c.call = "evaluate" /\ c.arg = "is_clickable" ->
         {[Answer("ok") EXCEPT !.v = BoolV(b)] : b \in BOOLEAN} \cup {Answer("exc")}
    [] OTHER -> {Answer("ok"), Answer("exc")}

\* One call of the interaction answered with o
Exec(x, o) ==
  CASE x.l.h = "handle_form" -> handle_form_step(x, o)
    [] x.l.h = "label_listing" -> label_listing(x, o)
    [] x.l.h = "handle_modal_form" -> handle_modal_form(x, o)
    [] x.l.h = "handle_final_form_and_extract_premium" ->
         handle_final_form_and_extract_premium(x, o)
    [] x.l.h = "handle_diabetic_popup" -> handle_diabetic_popup(x, o)
    [] x.l.h = "extract_add_on_riders" -> extract_add_on_riders(x, o)
    [] x.l.h = "handle_final_details_form" -> handle_final_details_form(x, o)
    [] x.l.h = "extract_final_quote_details" -> extract_final_quote_details(x, o)

\* The answer of a provider that cooperates: the call succeeds, the element
\* is there, the popup holds a rider card, the button can be clicked.
Cooperates(c, o) ==
  /\ o.r = "ok"
  /\ c.call = "query_selector_all" => o.n >= 1
  /\ (c.call = "evaluate" /\ c.arg = "is_clickable") => o.v = BoolV(TRUE)

\* line 128 and the handlers under it: the next call of worker w's form
\* interaction is made and answered.  The first step enters handle_any_form,
\* which calls handle_form2; the step at which handle_any_form returns takes
\* the worker to line 131.
\* What the pages of this run answer to a call: whatever the engine can
\* answer, only what a cooperating page answers, or a fault every time.
Served(c) ==
  CASE provider.answers = "any" -> Outcomes(c)
    [] provider.answers = "cooperating" -> {o \in Outcomes(c) : Cooperates(c, o)}
    [] provider.answers = "failing" -> {Answer("exc")}

Interact(w) ==
  /\ pc[w] = "form" /\ ~TasksCancelled
  /\ LET l0 == IF loc[w].h = "handle_any_form"
               THEN [StartForm(loc[w], FormOrder[1]) EXCEPT
                       !.cooperative = nav[w].loaded /\ nav[w].gotos = 1]
               ELSE loc[w]
         x0 == [l |-> l0, d |-> plan_data[w]]
     IN  \E o \in (IF EngineUp THEN Served(CallAt(l0)) ELSE {Answer("exc")}) :
           LET x1 == Exec(x0, o)
           IN  /\ loc' = [loc EXCEPT ![w] =
                            [x1.l EXCEPT !.cooperative =
                                           @ /\ Cooperates(CallAt(l0), o)]]
               /\ plan_data' = [plan_data EXCEPT ![w] = x1.d]
               /\ pc' = [pc EXCEPT ![w] = IF x1.l.h = "handle_any_form"
                                          THEN "text" ELSE "form"]
  /\ nav' = [nav EXCEPT ![w] = NoNav]
  /\ UNCHANGED <<provider, returned, mainVars, collectVars, sem, page, ret, result>>

(***************************************************************************)
(* The specifications.                                                     *)
(***************************************************************************)
vars == <<provider, mainPc, driver, browser, context, playwright_bound, plan_urls,
          parsed_plans, written, sem, cPc, cPage, cNav, pc,
          plan_data, page, nav, ret, returned, result, loc>>

Premium500 == StrV(<<"Rs", "500">>)

\* The quote fields every quote page served holds: the queries for them find
\* their element or raise; equote_number and gst_amount may be missing
Present ==
  {quote_fields[i].sel : i \in 1..Len(quote_fields)}
    \ {quote_fields[1].sel, quote_fields[7].sel}

\* The texts inner_text() may return, by what is read
InnerTexts ==
  [premium |-> {Premium500},
   rider |-> {StrV(<<"Critical", " ", "Illness">>)},
   quote |-> {StrV(<<"Q", "-", "1">>)},
   addon |-> {StrV(<<"Monthly", " ", "Add", "-", "ons">>), StrV(<<"Accident", " ", "Cover">>)}]

Hrefs ==
  { ListingPath \o <<"/">> \o Slugs[1],
    ListingPath \o <<"/">> \o Slugs[1] \o <<"?", "utm">>,
    ListingPath \o <<"/">> \o Slugs[2],
    ListingPath \o <<"/">> \o <<"term", "-", "plan", "-", "calculator">>,
    <<"/", "life", "-", "insurance", "-", "plans", "/">> \o Slugs[3] }

WorkerInit ==
  /\ pc = [w \in Workers |-> "idle"]
  /\ plan_data = [w \in Workers |-> EmptyDict]
  /\ page = [w \in Workers |-> "none"]
  /\ nav = [w \in Workers |-> NoNav]
  /\ ret = [w \in Workers |-> EmptyDict]
  /\ returned = [w \in Workers |-> "none"]
  /\ result = [w \in Workers |-> Pending]
  /\ loc = [w \in Workers |-> LocInit]

\* main() before its first statement; the semaphore as __init__ (line 29) sets it
Init ==
  /\ provider = [texts |-> {{}, PageWords},
                 hrefs |-> Hrefs,
                 answers |-> "any",
                 counts |-> TRUE,
                 items |-> MaxItems,
                 inner_texts |-> InnerTexts,
                 present |-> Present]
  /\ mainPc = "start"
  /\ driver = "none" /\ browser = "none" /\ context = "none"
  /\ playwright_bound = FALSE
  /\ plan_urls = <<>> /\ parsed_plans = <<>> /\ written = "no"
  /\ sem = MAX_CONCURRENT_PAGES
  /\ cPc = "new_page" /\ cPage = "none" /\ cNav = NoNav
  /\ WorkerInit

WorkerStep(w) ==
  \/ Acquire(w)
  \/ NewPage(w)
  \/ Navigate(w)
  \/ AllInnerTexts(w)
  \/ ClosePage(w)

MainStep ==
  \/ GatherReturn
  \/ GatherRaise
  \/ CloseBrowser
  \/ StopDriver
  \/ RunReturns

Next ==
  \/ Start
  \/ CollectNewPage
  \/ CollectNavigate
  \/ CollectLinks
  \/ Dispatch
  \/ MainStep
  \/ \E w \in Workers : WorkerStep(w)
  \/ \E w \in Workers : Interact(w)

Spec == Init /\ [][Next]_vars

\* gather over the first k URLs, for a scraper whose limit does not cut the
\* list: the state main is in at line 1036, the tasks created and none run.
\* The pool follows the scheduling of the tasks over pages of one kind
\* (provider.answers): pages whose every form call raises, for up to
\* MaxUrls URLs, or pages that cooperate with the forms, for up to MaxForms
\* URLs; the navigation records are not kept once the loop is left
\* (provider.counts).  Spec follows one task over every answer.
InitPool ==
  /\ \E kind \in {"failing", "cooperating"} :
       provider = [texts |-> {{"Medical", "term"}},
                   hrefs |-> Hrefs,
                   answers |-> kind,
                   counts |-> FALSE,
                   items |-> MaxItems,
                   inner_texts |-> InnerTexts,
                   present |-> Present]
  /\ mainPc = "gather"
  /\ driver = "running" /\ browser = "open" /\ context = "open"
  /\ playwright_bound = TRUE
  /\ \E k \in 0..(IF provider.answers = "failing" THEN MaxUrls ELSE MaxForms) :
       plan_urls = [i \in 1..k |-> PlanUrl(i)]
  /\ parsed_plans = <<>> /\ written = "no"
  /\ sem = MAX_CONCURRENT_PAGES
  /\ cPc = "done" /\ cPage = "closed" /\ cNav = NoNav
  /\ pc = [w \in Workers |-> IF w <= Len(plan_urls) THEN "waiting" ELSE "idle"]
  /\ plan_data = [w \in Workers |-> EmptyDict]
  /\ page = [w \in Workers |-> "none"]
  /\ nav = [w \in Workers |-> NoNav]
  /\ ret = [w \in Workers |-> EmptyDict]
  /\ returned = [w \in Workers |-> "none"]
  /\ result = [w \in Workers |-> Pending]
  /\ loc = [w \in Workers |-> LocInit]

NextPool ==
  \/ MainStep
  \/ \E w \in Workers : WorkerStep(w)
  \/ \E w \in Workers : Interact(w)
  \/ \E w \in Workers : Cancel(w)
  \/ \E w \in Workers : CancelledClose(w)

SpecPool == InitPool /\ [][NextPool]_vars

\* A call of the static method parse_maxlife_plan on a record of the
\* caller's choosing: the caller's object is plan_data[w], before the call
\* and after it; ret[w] is the value returned and returned[w] the object
\* it is; loc[w].wrote keeps the record as it was handed over.
ParseRecord(w) ==
  /\ pc[w] = "parse"
  /\ LET h == parse_maxlife_plan_call(plan_data[w])
     IN  /\ ret' = [ret EXCEPT ![w] = h.objects[h.bound]]
         /\ returned' = [returned EXCEPT ![w] = h.bound]
         /\ plan_data' = [plan_data EXCEPT ![w] = h.objects["raw_data"]]
  /\ loc' = [loc EXCEPT ![w].wrote = plan_data[w]]
  /\ pc' = [pc EXCEPT ![w] = "parsed"]
  /\ UNCHANGED <<provider, mainVars, collectVars, sem, page, nav, result>>

\* The keys a record handed to parse_maxlife_plan may hold: the ten of the
\* schema and one that is not of the schema.
RawKeys == SchemaKeys \cup {"note"}

\* The values the records hold: a plan name with and without "Axis", a URL
\* with and without "-plan" in its last segment, one value for each other
\* key.
RawPlanNames == {StrV(<<"Axis", " ", "Max", " ", "Life", " ", "Term", " ", "Plan">>),
                 StrV(<<"Term", " ", "Plan">>)}
RawUrls == {StrV(PlanUrl(1)), StrV(PlanUrl(3))}
RawValue(k) ==
  IF k = "add_on_riders" THEN ListV(<<>>)
  ELSE IF k = "quote_details" THEN DictV(EmptyDict)
  ELSE IF k = "medical_required" THEN BoolV(TRUE)
  ELSE StrV(<<k>>)

RawRecord(K, name, url) ==
  [k \in K |-> IF k = "plan_name" THEN name
               ELSE IF k = "source_url" THEN url
               ELSE RawValue(k)]

\* parse_maxlife_plan called once on any record over RawKeys, the empty one
\* included.
InitParse ==
  /\ provider = [texts |-> {{}},
                 hrefs |-> Hrefs,
                 answers |-> "any",
                 counts |-> FALSE,
                 items |-> MaxItems,
                 inner_texts |-> InnerTexts,
                 present |-> Present]
  /\ mainPc = "done"
  /\ driver = "none" /\ browser = "none" /\ context = "none"
  /\ playwright_bound = FALSE
  /\ plan_urls = <<>> /\ parsed_plans = <<>> /\ written = "no"
  /\ sem = MAX_CONCURRENT_PAGES
  /\ cPc = "done" /\ cPage = "none" /\ cNav = NoNav
  /\ pc = [w \in Workers |-> IF w = 1 THEN "parse" ELSE "idle"]
  /\ \E K \in SUBSET RawKeys : \E name \in RawPlanNames : \E url \in RawUrls :
       plan_data = [w \in Workers |->
                      IF w = 1 THEN RawRecord(K, name, url) ELSE EmptyDict]
  /\ page = [w \in Workers |-> "none"]
  /\ nav = [w \in Workers |-> NoNav]
  /\ ret = [w \in Workers |-> EmptyDict]
  /\ returned = [w \in Workers |-> "none"]
  /\ result = [w \in Workers |-> Pending]
  /\ loc = [w \in Workers |-> LocInit]

NextParse == \E w \in Workers : ParseRecord(w)

SpecParse == InitParse /\ [][NextParse]_vars

(***************************************************************************)
(* The claims.                                                             *)
(***************************************************************************)
IdentityKeys == {"source_url", "source_scrape_date", "insurer", "plan_type"}

\* C1: every record scrape_plan returns, on every exit path, holds all ten
\* keys of the schema.
C1_ReturnedRecordHasSchemaKeys ==
  \A w \in Workers :
    result[w].kind = "record" => SchemaKeys \subseteq DOMAIN result[w].value

\* C2: when main has finished after dispatching URLs, and the file system
\* did not fail the writing of the output file, it has written exactly one
\* record per dispatched URL, the i-th record holding the i-th URL, also
\* when some worker failed.
C2_OneRecordPerDispatchedUrl ==
  (/\ MainEnded /\ Len(plan_urls) > 0 /\ \A w \in Dispatched : pc[w] # "idle"
   /\ written \notin {"refused", "truncated"}) =>
    /\ written = "whole"
    /\ Len(parsed_plans) = Len(plan_urls)
    /\ \A i \in 1..Len(plan_urls) :
         /\ "source_url" \in DOMAIN parsed_plans[i]
         /\ parsed_plans[i]["source_url"] = StrV(plan_urls[i])

\* C3: no scrape_plan task ends with a fault: each one returns a record.
C3_NoFaultEscapes == \A w \in Workers : result[w].kind # "raised"

Active(w) == pc[w] \in {"new_page", "nav", "form", "text", "close", "close_cancelled"}

\* C4: at every moment at most MAX_CONCURRENT_PAGES workers are past the
\* acquisition of a slot and not yet past its release.
C4_AtMostNActive ==
  Cardinality({w \in Workers : Active(w)}) <= MAX_CONCURRENT_PAGES

C4_Witness ==
  /\ Cardinality({w \in Workers : Active(w)}) = MAX_CONCURRENT_PAGES
  /\ \E w \in Workers : pc[w] = "waiting"

\* C5: when every navigation attempt failed, no form variant has been tried
\* and the record returned holds the identity values in the identity fields
\* and "N/A" in every other field of the schema.
C5_NavigationFailureRecord ==
  \A w \in Workers :
    (pc[w] = "close" /\ nav[w].gotos = RETRY_ATTEMPTS /\ ~nav[w].loaded) =>
      /\ loc[w].tried = <<>>
      /\ \A k \in IdentityKeys :
           k \in DOMAIN ret[w] /\ ret[w][k] = InitialPlanData(plan_urls[w])[k]
      /\ \A k \in SchemaKeys \ IdentityKeys :
           k \in DOMAIN ret[w] /\ ret[w][k] = NA

\* What C6 says of one run of the navigation loop, under way or left.
RetriedAsClaimed(n) ==
  /\ n.gotos <= RETRY_ATTEMPTS
  /\ \A i \in 1..(Len(n.answers) - 1) : ~n.answers[i]
  /\ n.at # "done" => \A i \in 1..Len(n.answers) : ~n.answers[i]
  /\ n.at = "done" =>
       /\ Len(n.answers) = n.gotos
       /\ n.loaded <=> (n.gotos > 0 /\ n.answers[n.gotos])
       /\ (n.gotos > 0 /\ ~n.loaded) => n.gotos = RETRY_ATTEMPTS
       /\ n.answers = <<FALSE, FALSE, TRUE>> => (n.loaded /\ n.gotos = 3)

\* C6: the page load under retry is invoked at most RETRY_ATTEMPTS times, no
\* attempt follows a successful one, two failures and a success make three
\* invocations and the loop succeeds, and the loop fails only after
\* RETRY_ATTEMPTS failed invocations; in scrape_plan and collect_plan_urls.
C6_RetryBounded ==
  /\ RetriedAsClaimed(cNav)
  /\ \A w \in Workers : RetriedAsClaimed(nav[w])

C6_Witness ==
  \E w \in Workers :
    pc[w] = "form" /\ nav[w].answers = <<FALSE, FALSE, TRUE>> /\ nav[w].loaded

\* C7: when variant B (handle_form2) found and filled every required field
\* and clicked its submit button, no other variant is tried.
C7_CompletesViaB ==
  \A w \in Workers : 2 \in loc[w].submitted => loc[w].tried = <<2>>

IsPrefix(s, t) == Len(s) <= Len(t) /\ s = SubSeq(t, 1, Len(s))

Returned_handle_any_form(l) == l.h = "handle_any_form" /\ l.step = "returned"

\* C8: the variants are tried in the order 2, 1, 3; a variant is tried only
\* after every earlier one reported failure; after a success none is tried;
\* handle_any_form reports failure only when all three failed.
C8_FixedVariantOrder ==
  \A w \in Workers :
    LET l == loc[w]
    IN  /\ IsPrefix(l.tried, <<2, 1, 3>>)
        /\ Len(l.reports) <= Len(l.tried)
        /\ \A k \in 1..Len(l.reports) : l.reports[k].form = l.tried[k]
        /\ \A k \in 1..(Len(l.tried) - 1) :
             k <= Len(l.reports) /\ ~l.reports[k].success
        /\ Returned_handle_any_form(l) =>
             /\ Len(l.reports) = Len(l.tried)
             /\ l.form_success = l.reports[Len(l.reports)].success
             /\ ~l.form_success => Len(l.tried) = 3

C8_Witness ==
  \E w \in Workers :
    /\ Returned_handle_any_form(loc[w])
    /\ loc[w].tried = <<2, 1>>
    /\ loc[w].form_success

\* C9: every field the interaction wrote to plan_data is in the record
\* scrape_plan returns, with the value written last.
C9_WritesReachTheRecord ==
  \A w \in Workers :
    result[w].kind = "record" =>
      \A k \in DOMAIN loc[w].wrote :
        k \in DOMAIN result[w].value /\ result[w].value[k] = loc[w].wrote[k]

C9_Witness ==
  \E w \in Workers :
    /\ result[w].kind = "record"
    /\ DOMAIN loc[w].wrote = {"monthly_premium", "add_on_riders", "quote_details"}
    /\ "medical_required" \in DOMAIN result[w].value

\* C10: when scrape_plan has ended, on whatever exit path (the navigation
\* retries exhausted, normal completion, a fault in any step, that of
\* plan.close() included), the page it opened is closed.
C10_PageClosedOnEveryExit ==
  \A w \in Workers : pc[w] = "done" => page[w] # "open"

\* C11: every slot taken is given back exactly once, also by a worker that
\* ends with a fault or is cancelled: the free slots are the N slots less the
\* workers that hold one, never below 0 nor above N, and N once every worker
\* has finished.
C11_SlotReleasedOnce ==
  /\ sem >= 0 /\ sem <= MAX_CONCURRENT_PAGES
  /\ sem = MAX_CONCURRENT_PAGES - Cardinality({w \in Workers : Active(w)})
  /\ (\A w \in Workers : pc[w] \in {"idle", "done"}) => sem = MAX_CONCURRENT_PAGES

\* C11 witness: more workers than slots have all finished, one of them with
\* a fault, and every slot is free.
C11_Witness ==
  /\ Cardinality({w \in Workers : pc[w] = "done"}) > MAX_CONCURRENT_PAGES
  /\ \A w \in Workers : pc[w] \in {"idle", "done"}
  /\ \E w \in Workers : result[w].kind = "raised"
  /\ \E w \in Workers : result[w].kind = "record"
  /\ sem = MAX_CONCURRENT_PAGES

\* C12: a fault that escapes one worker leaves the others alone: none is
\* cancelled, each still running has the browser open under it, and when
\* main has finished the records of those that returned are in the output.
C12_FaultIsolated ==
  \A w \in Workers :
    result[w].kind = "raised" =>
      \A v \in Workers \ {w} :
        /\ result[v].kind # "cancelled"
        /\ Active(v) => (browser = "open" /\ ~TasksCancelled)
        /\ (MainEnded /\ result[v].kind = "record") =>
             /\ written = "whole"
             /\ v <= Len(parsed_plans)
             /\ parsed_plans[v] = result[v].value

\* C13: when main has finished, on whatever path, the browser it launched is
\* closed and the automation driver it started is stopped.
C13_BrowserAndDriverReleased ==
  MainEnded => (browser # "open" /\ driver # "running")

\* C14: parse_maxlife_plan returns, for every record, a record that holds
\* the ten schema keys; every key other than plan_name that the input holds
\* keeps its value, every schema key other than plan_name that the input
\* lacks holds "N/A", and for the empty record every schema key, plan_name
\* included, holds "N/A".
C14_ParseFillsSchema ==
  \A w \in Workers :
    pc[w] = "parsed" =>
      /\ SchemaKeys \subseteq DOMAIN ret[w]
      /\ DOMAIN ret[w] = (DOMAIN plan_data[w]) \cup SchemaKeys
      /\ \A k \in (DOMAIN plan_data[w]) \ {"plan_name"} :
           ret[w][k] = plan_data[w][k]
      /\ \A k \in SchemaKeys \ ((DOMAIN plan_data[w]) \cup {"plan_name"}) :
           ret[w][k] = NA
      /\ plan_data[w] = EmptyDict => \A k \in SchemaKeys : ret[w][k] = NA

\* C14 witness: a record that holds some schema keys, lacks others and holds
\* a key outside the schema has been parsed.
C14_Witness ==
  /\ pc[1] = "parsed"
  /\ {"insurer", "note", "source_url"} \subseteq DOMAIN plan_data[1]
  /\ "monthly_premium" \notin DOMAIN plan_data[1]
  /\ "plan_name" \notin DOMAIN plan_data[1]
  /\ ret[1]["monthly_premium"] = NA
  /\ ret[1]["note"] = plan_data[1]["note"]

\* C15: in the chains of the premium value, of the Proceed button and of
\* the Check Coverage button of the modal, no candidate is tried once an
\* earlier candidate of the chain has matched: wherever a candidate is about
\* to be tried, the chain holds no element yet.
C15_FirstMatchEndsChain ==
  \A w \in Workers :
    LET l == loc[w]
    IN  /\ (l.h = "handle_final_form_and_extract_premium" /\ l.step = "premium")
             => l.premium_element = 0
        /\ (l.h = "handle_final_form_and_extract_premium" /\ l.step = "proceed")
             => l.proceed_btn = 0
        /\ (l.h = "handle_modal_form" /\ l.step = "find") => l.btn = 0

\* The value v is a non-empty list of mappings with exactly the keys name,
\* coverage and premium.
IsRiderList(v) ==
  /\ v.t = "list"
  /\ Len(v.v) >= 1
  /\ \A i \in 1..Len(v.v) : DOMAIN v.v[i] = {"name", "coverage", "premium"}

\* C16: with a provider that cooperates throughout, the worker reaches Final
\* Quote Extracted through Variant B alone, and the record it returns holds
\* the monthly premium read from the page, a non-empty list of riders with
\* exactly the keys name, coverage and premium, and a mapping as
\* quote_details.
C16_CooperativeRunCompletes ==
  \A w \in Workers :
    (loc[w].cooperative /\ Returned_handle_any_form(loc[w])) =>
      /\ loc[w].tried = <<2>>
      /\ loc[w].form_success
      /\ {"monthly_premium", "add_on_riders", "quote_details"}
           \subseteq DOMAIN loc[w].wrote
      /\ loc[w].wrote["monthly_premium"] \in provider.inner_texts["premium"]
      /\ IsRiderList(loc[w].wrote["add_on_riders"])
      /\ loc[w].wrote["quote_details"].t = "dict"
      /\ result[w].kind = "record" =>
           \A k \in {"monthly_premium", "add_on_riders", "quote_details"} :
             result[w].value[k] = loc[w].wrote[k]

\* C16 witness: a worker the provider cooperated with has returned its record
\* with the riders and the quote in it.
C16_Witness ==
  \E w \in Workers :
    /\ loc[w].cooperative /\ Returned_handle_any_form(loc[w])
    /\ result[w].kind = "record"
    /\ IsRiderList(result[w].value["add_on_riders"])
    /\ result[w].value["quote_details"].t = "dict"

\* The names the claim's rule gives for the URLs served, written out: the
\* last segment without a trailing "-plan", hyphens as spaces, title-cased,
\* the marketing terms taken out, between "Axis Max Life" and "Plan".
ExpectedPlanNames ==
  << <<"Axis", " ", "Max", " ", "Life", " ", "Smart", " ", "Secure", " ", "Plus", " ", "Plan">>,
     <<"Axis", " ", "Max", " ", "Life", " ", "Term", " ", "Plan">>,
     <<"Axis", " ", "Max", " ", "Life", " ", "Saral", " ", "Jeevan", " ", "Bima", " ", "Plan">>,
     <<"Axis", " ", "Max", " ", "Life", " ", "Smart", " ", "Term", " ", "Plan", " ", "Plan">>,
     <<"Axis", " ", "Max", " ", "Life", " ", "Term", " ", "Plan", " ", "Plan">> >>

MarketingWords == {"buy", "best", "online", "india", "2024"}

\* C17: the plan name made from a URL is its last path segment with a
\* trailing "-plan" removed, hyphens turned to spaces, title-cased and the
\* marketing terms removed, wrapped as "Axis Max Life <name> Plan"; for
\* /smart-secure-plus-plan it is "Axis Max Life Smart Secure Plus Plan"; and
\* it is the plan_name of the record scrape_plan returns for the URL.
C17_PlanNameFromUrl ==
  \A w \in Workers :
    result[w].kind = "record" =>
      LET name == result[w].value["plan_name"].v
      IN  /\ result[w].value["source_url"] = StrV(PlanUrl(w))
          /\ result[w].value["plan_name"].t = "str"
          /\ name = clean_plan_name_from_url(PlanUrl(w))
          /\ w <= Len(ExpectedPlanNames) => name = ExpectedPlanNames[w]
          /\ SubSeq(name, 1, 6) = <<"Axis", " ", "Max", " ", "Life", " ">>
          /\ name[Len(name)] = "Plan"
          /\ \A i \in 1..Len(name) :
               name[i] # "-" /\ Lower(name[i]) \notin MarketingWords

\* C17 witness: the records of /smart-secure-plus-plan and of a URL with
\* marketing terms in it have been returned.
C17_Witness ==
  /\ result[1].kind = "record"
  /\ result[1].value["plan_name"] = StrV(ExpectedPlanNames[1])
  /\ result[2].kind = "record"
  /\ result[2].value["plan_name"] = StrV(ExpectedPlanNames[2])
  /\ result[4].kind = "record"

\* The states after the variant forms: Modal Resolution, Secondary Form,
\* Rider Popup (with its riders), Identity Form and Final Quote.
StatesAfterSubmit ==
  {"handle_modal_form", "handle_final_form_and_extract_premium",
   "handle_diabetic_popup", "extract_add_on_riders",
   "handle_final_details_form", "extract_final_quote_details"}

\* C18: the item only moves forward: once Modal Resolution has been entered
\* no variant form is entered again, and each state after the variant forms
\* is entered at most once.
C18_ForwardOnly ==
  [][\A w \in Workers :
       /\ Len(loc'[w].tried) > Len(loc[w].tried)
            => "handle_modal_form" \notin loc[w].entered
       /\ \A h \in StatesAfterSubmit :
            (loc'[w].h = h /\ loc[w].h # h) => h \notin loc[w].entered]_vars

\* The number of required fields of variant f whose query comes before its
\* step i: each field has one query whose miss ends the variant (in Variant
\* C, the second of its two selectors).
RECURSIVE FieldsBefore(_, _)
FieldsBefore(f, i) ==
  IF i <= 1 THEN 0
  ELSE LET s == FormSteps(f)[i - 1]
       IN  FieldsBefore(f, i - 1)
             + (IF s.call = "query_selector" /\ s.none # "next" THEN 1 ELSE 0)

RequiredFields(f) == FieldsBefore(f, Len(FormSteps(f)) + 1)

\* C19: wherever a variant handler is, it has resolved every required field
\* that comes before that place, so no fill or click follows a field that
\* was not found; and it has clicked submit only with all of its required
\* fields resolved.
C19_NoPartialSubmit ==
  \A w \in Workers :
    loc[w].h = "handle_form" =>
      /\ loc[w].found = FieldsBefore(loc[w].form, loc[w].i)
      /\ loc[w].form \in loc[w].submitted
           => loc[w].found = RequiredFields(loc[w].form)

\* C19 witness: Variant B returned without a submit, and Variant C, tried
\* last, has resolved all of its required fields and clicked submit.
C19_Witness ==
  \E w \in Workers :
    /\ loc[w].h = "handle_form"
    /\ loc[w].tried = <<2, 1, 3>>
    /\ loc[w].submitted = {3}
    /\ loc[w].found = RequiredFields(3)

\* The step from l to m ends a variant with failure.
EndsInFailure(l, m) ==
  /\ Len(m.reports) = Len(l.reports) + 1
  /\ ~m.reports[Len(m.reports)].success

\* The wait for the rider popup ends with the popup there or with
\* handle_diabetic_popup returning True.
PopupAbsenceIsSkip(l, m) ==
  (l.h = "handle_diabetic_popup" /\ l.step = "wait_popup" /\ m # l) =>
     \/ m.h = "handle_diabetic_popup" /\ m.step = "wait_button"
     \/ m.popup_returned = "True" /\ ~EndsInFailure(l, m)

\* C20 as stated: a popup or modal that is absent is skipped: the wait for
\* the rider popup ends with the popup there or with success, and so does
\* the wait for the modal after the submit.
C20_AbsenceIsSkip ==
  [][\A w \in Workers :
       /\ PopupAbsenceIsSkip(loc[w], loc'[w])
       /\ (loc[w].h = "handle_modal_form" /\ loc[w].step = "wait_modal")
            => ~EndsInFailure(loc[w], loc'[w])]_vars

\* C20 as amended: an absent rider popup is a skip, handle_diabetic_popup
\* returning True; an absent modal is a failure: the wait for the modal ends
\* with the modal there or with the variant returning False.
C20_PopupAbsenceIsSkip ==
  [][\A w \in Workers :
       /\ PopupAbsenceIsSkip(loc[w], loc'[w])
       /\ (loc[w].h = "handle_modal_form" /\ loc[w].step = "wait_modal"
             /\ loc'[w] # loc[w])
            => \/ loc'[w].h = "handle_modal_form" /\ loc'[w].step = "wait_spinner"
               \/ EndsInFailure(loc[w], loc'[w])]_vars

\* C20 witness: the popup did not appear (handle_diabetic_popup returned True
\* with no rider extraction called) and the variant returned success, after
\* an earlier variant had clicked submit and returned False.
C20_Witness ==
  \E w \in Workers :
    /\ Returned_handle_any_form(loc[w]) /\ loc[w].form_success
    /\ loc[w].popup_returned = "True"
    /\ "extract_add_on_riders" \notin loc[w].entered
    /\ Len(loc[w].reports) = 2
    /\ loc[w].submitted = {2, 1}

\* Leaving the premium chain does not end the handler: the step taken at a
\* premium candidate or at the read of its text stays in the handler.
PremiumMissGoesOn(l, m) ==
  (/\ l.h = "handle_final_form_and_extract_premium"
   /\ l.step \in {"premium", "premium_text"} /\ m # l)
    => m.h = "handle_final_form_and_extract_premium"

\* When the rider cards are left, the riders read are in the record.
RidersReadAreRecorded(l, m) ==
  (/\ l.h = "extract_add_on_riders"
   /\ l.step \in {"query_name", "name_text", "query_coverage", "coverage_text",
                  "query_premium", "premium_text", "card_html", "card_text"}
   /\ ~(m.h = l.h /\ m.step \in {"query_name", "name_text", "query_coverage",
                                 "coverage_text", "query_premium",
                                 "premium_text", "card_html", "card_text"}))
    => /\ "add_on_riders" \in DOMAIN m.wrote
       /\ IsPrefix(l.riders, m.wrote["add_on_riders"].v)
       /\ Len(m.wrote["add_on_riders"].v) = l.n

\* When the quote breakdown is left, the fields read are in the record.
QuoteFieldsReadAreRecorded(l, m) ==
  (/\ l.h = "extract_final_quote_details"
   /\ l.step \in {"query_field", "field_text", "addons", "addon_text"}
   /\ m.h # l.h)
    => /\ "quote_details" \in DOMAIN m.wrote
       /\ m.wrote["quote_details"].t = "dict"
       /\ \A k \in DOMAIN l.quote_details :
            /\ k \in DOMAIN m.wrote["quote_details"].v
            /\ m.wrote["quote_details"].v[k] = l.quote_details[k]

\* C21: in the extraction states (premium, rider list, quote breakdown) a
\* field that is not found or whose text cannot be read does not abort the
\* state: the state goes on, and what was read is in the record when the
\* state is left.
C21_FieldMissKeepsTheRest ==
  [][\A w \in Workers :
       /\ PremiumMissGoesOn(loc[w], loc'[w])
       /\ RidersReadAreRecorded(loc[w], loc'[w])
       /\ QuoteFieldsReadAreRecorded(loc[w], loc'[w])]_vars

\* The places where the Proceed button of the rider popup, the skip button,
\* and the submit and Proceed buttons of the identity form are resolved and
\* clicked.  A success there goes on inside the handlers; the variant
\* returns from there only when the element was not resolved or not clicked.
AtRequiredButton(l) ==
  \/ l.h = "handle_diabetic_popup" /\ l.step \in {"wait_button", "click"}
  \/ l.h = "extract_add_on_riders" /\ l.step \in {"wait_skip", "click_skip"}
  \/ /\ l.h = "handle_final_details_form"
     /\ l.step \in {"query_submit", "click_submit", "wait_proceed", "click_proceed"}

\* C22: when the Proceed button of the rider popup, the skip button, or the
\* submit or Proceed button of the identity form cannot be resolved or
\* clicked, the variant does not report success: a return of the variant
\* from one of these places is a failure.
C22_FailureEdgeTaken ==
  [][\A w \in Workers :
       (AtRequiredButton(loc[w]) /\ Returned_handle_any_form(loc'[w]))
         => ~loc'[w].form_success]_vars

\* The handlers with a click loop of three mechanisms.
ClickLoopHandlers ==
  {"handle_modal_form", "handle_final_form_and_extract_premium"}

\* l is at step s of the click loop of one of the two handlers
InClickLoop(l, s) == l.h \in ClickLoopHandlers /\ l.step = s

\* The step from l to m enters step s of the click loop
Enters(l, m, s) == InClickLoop(m, s) /\ ~(l.h = m.h /\ l.step = s)

\* C23: the mechanisms are tried in the order click, dispatched
\* event, script-level click, a later one only when the earlier one failed,
\* and when the third has failed the variant fails, with no further round.
C23_MechanismsOnceInOrder ==
  [][\A w \in Workers :
       LET l == loc[w]
           m == loc'[w]
       IN  /\ Enters(l, m, "dispatch") => (l.h = m.h /\ l.step = "click")
           /\ Enters(l, m, "js") => (l.h = m.h /\ l.step = "dispatch")
           /\ (InClickLoop(l, "js") /\ m # l /\ ~InClickLoop(m, "js_wait"))
                => EndsInFailure(l, m)]_vars

\* C24: the element handle_modal_form clicks as the Check Coverage button
\* has matched and passed the enabled check: wherever a click mechanism is
\* about to act on btn, btn holds a candidate whose enabled wait returned.
C24_ClickedButtonIsEnabled ==
  \A w \in Workers :
    (/\ loc[w].h = "handle_modal_form"
     /\ loc[w].step \in {"scroll", "hover", "click", "dispatch", "js"})
      => (loc[w].btn # 0 /\ loc[w].btn_enabled)

\* l is at the submitting click of a variant form
AtVariantSubmit(l) ==
  l.h = "handle_form" /\ FormSteps(l.form)[l.i].submit

\* C25: no submitting click is made in a second round: the variant
\* submit is reached by a variant that has not submitted, and the click
\* mechanisms of the modal's Check Coverage button and of the secondary
\* form's Proceed button act in the first round only.
C25_SubmitsNotRetried ==
  \A w \in Workers :
    /\ AtVariantSubmit(loc[w]) => loc[w].form \notin loc[w].submitted
    /\ (loc[w].h \in ClickLoopHandlers
          /\ loc[w].step \in {"click", "dispatch", "js"})
         => loc[w].attempt = 0

\* C26: a navigation attempt that fails with a terminal failure is not
\* repeated: the loop, of scrape_plan or of collect_plan_urls, has made one
\* attempt.
C26_TerminalFailureNotRetried ==
  /\ \A w \in Workers : nav[w].terminal => nav[w].gotos = 1
  /\ cNav.terminal => cNav.gotos = 1


\* The delays of a navigation loop that has begun n.gotos passes:
\* RETRY_DELAY after each failed pass but the last one made (before the
\* goto of the next pass, the delay after the pass just failed is in).
NavigationDelaysAsClaimed(n) ==
  n.gotos > 0 =>
    /\ Len(n.delays) = (IF n.at = "goto" THEN n.gotos ELSE n.gotos - 1)
    /\ \A i \in 1..Len(n.delays) : n.delays[i] = RETRY_DELAY
    /\ (n.at = "done" /\ ~n.loaded) => Len(n.delays) = RETRY_ATTEMPTS - 1

\* C27: the click loops wait 1000 ms after the first failed round and 2000
\* ms after the second and do not wait after the third; a navigation loop
\* waits RETRY_DELAY after each failed attempt but the last.
C27_DelaysBetweenAttempts ==
  /\ \A w \in Workers :
       /\ (loc[w].h \in ClickLoopHandlers
             /\ loc[w].step \in {"covered_delay", "failed_delay", "round_delay"})
            => /\ loc[w].attempt \in {0, 1}
               /\ loc[w].attempt = 0 => loc[w].retry_delay = 1000
               /\ loc[w].attempt = 1 => loc[w].retry_delay = 2000
               /\ CallAt(loc[w]) = Wait(loc[w].retry_delay)
       /\ (loc[w].h \in ClickLoopHandlers
             /\ loc[w].step \in {"scroll", "hover", "click", "dispatch", "js"})
            => loc[w].retry_delay = InitialRetryDelay * (2 ^ loc[w].attempt)
       /\ NavigationDelaysAsClaimed(nav[w])
  /\ NavigationDelaysAsClaimed(cNav)

\* C27 witness: the modal's click loop is about to wait 2000 ms, its second
\* round having failed in all three click methods.
C27_Witness ==
  \E w \in Workers :
    /\ loc[w].h = "handle_modal_form" /\ loc[w].step = "failed_delay"
    /\ loc[w].attempt = 1 /\ loc[w].retry_delay = 2000
    /\ CallAt(loc[w]).arg = 2000

\* C28: no two workers use the same browsing context: two workers whose
\* pages are open have them in different contexts.
C28_ContextPerWorker ==
  \A v \in Workers : \A w \in Workers \ {v} :
    (page[v] = "open" /\ page[w] = "open") => ContextOf(v) # ContextOf(w)

\* The identity fields of the record of the worker of URL url, written out.
IdentityOf(url) ==
  [k \in IdentityKeys |->
     CASE k = "source_url" -> StrV(url)
       [] k = "source_scrape_date" -> StrV(Today)
       [] k = "insurer" -> StrV(<<"Axis", " ", "Max", " ", "Life", " ", "Insurance">>)
       [] k = "plan_type" -> StrV(<<"Term", " ", "Insurance">>)]

\* The record d holds the identity fields of url.
HoldsIdentity(d, url) ==
  \A k \in IdentityKeys : k \in DOMAIN d /\ d[k] = IdentityOf(url)[k]

\* C29: from before the first call into the provider and through every
\* later step, normalization included, the worker's record holds source_url
\* (its URL), source_scrape_date, insurer and plan_type unchanged; so does
\* the record it returns.
C29_IdentityFieldsKept ==
  \A w \in Workers :
    /\ pc[w] \in {"new_page", "nav", "form", "text", "close"}
         => HoldsIdentity(plan_data[w], plan_urls[w])
    /\ (pc[w] = "close" /\ ret[w] # EmptyDict)
         => HoldsIdentity(ret[w], plan_urls[w])
    /\ result[w].kind = "record" => HoldsIdentity(result[w].value, plan_urls[w])

\* C29 witness: a worker whose interaction wrote the premium, the riders and
\* the quote, and whose record was normalized, has returned it.
C29_Witness ==
  \E w \in Workers :
    /\ result[w].kind = "record"
    /\ {"monthly_premium", "add_on_riders", "quote_details"}
         \subseteq DOMAIN loc[w].wrote
    /\ "medical_required" \in DOMAIN result[w].value
    /\ result[w].value["source_url"] = StrV(plan_urls[w])

\* C30: parse_maxlife_plan leaves the record passed to it as it was, no key
\* added, removed or changed, and the record it returns is another object
\* than the one passed to it.
C30_ParseLeavesArgument ==
  \A w \in Workers :
    pc[w] = "parsed" =>
      /\ DOMAIN plan_data[w] = DOMAIN loc[w].wrote
      /\ \A k \in DOMAIN plan_data[w] : plan_data[w][k] = loc[w].wrote[k]
      /\ returned[w] = "copy"

\* C30 witness: a call has returned a record that differs from its argument,
\* both in the keys held and in the plan name.
C30_Witness ==
  \E w \in Workers :
    /\ pc[w] = "parsed" /\ returned[w] = "copy"
    /\ "plan_name" \in DOMAIN plan_data[w]
    /\ ret[w]["plan_name"] # plan_data[w]["plan_name"]
    /\ DOMAIN ret[w] # DOMAIN plan_data[w]

\* C31: every dispatched worker acquires a slot before it ends: a worker
\* that waits for a slot leaves the wait only by entering the semaphore
\* (line 102), never by ending without one.
C31_WaitingWorkerIsAdmitted ==
  [][\A w \in Workers :
       (w \in Dispatched /\ pc[w] = "waiting") => pc'[w] \in {"waiting", "new_page"}]_vars

\* The stages that follow the rider popup.
LaterStages ==
  {"extract_add_on_riders", "handle_final_details_form",
   "extract_final_quote_details"}

\* handle_diabetic_popup has returned True without the popup having been
\* there: no rider extraction was called.
PopupWasAbsent(l) ==
  l.popup_returned = "True" /\ "extract_add_on_riders" \notin l.entered

\* The later stages are entered in their order, and the first of them only
\* from the popup whose Proceed button was clicked and whose settle wait is
\* over.
EnteredThroughPopup(l, m) ==
  /\ ("extract_add_on_riders" \in m.entered \ l.entered)
       => l.h = "handle_diabetic_popup" /\ l.step = "click_wait"
  /\ ("handle_final_details_form" \in m.entered)
       => "extract_add_on_riders" \in m.entered
  /\ ("extract_final_quote_details" \in m.entered)
       => "handle_final_details_form" \in m.entered

\* C32: the later stages are reached only through the rider popup: a record
\* holds an extracted quote_details only if it holds extracted riders, and
\* extracted riders only if the popup appeared and its Proceed button was
\* clicked; when the popup is absent no later stage is attempted, the variant
\* reports success and both fields of the record returned are the sentinel.
C32_LaterStagesThroughPopup ==
  [][\A w \in Workers :
       LET l == loc[w]
           m == loc'[w]
       IN  /\ EnteredThroughPopup(l, m)
           /\ "quote_details" \in DOMAIN m.wrote
                => /\ "add_on_riders" \in DOMAIN m.wrote
                   /\ "extract_final_quote_details" \in m.entered
           /\ "add_on_riders" \in DOMAIN m.wrote
                => "extract_add_on_riders" \in m.entered
           /\ PopupWasAbsent(m)
                => /\ m.entered \cap LaterStages = {}
                   /\ DOMAIN m.wrote \cap {"add_on_riders", "quote_details"} = {}
                   /\ Returned_handle_any_form(m) /\ m.form_success
                   /\ result'[w].kind = "record"
                        => \A k \in {"add_on_riders", "quote_details"} :
                             /\ k \in DOMAIN result'[w].value
                             /\ result'[w].value[k] = NA]_vars

\* The Proceed button of the secondary form has just been clicked by one of
\* the three mechanisms: the handler is at the settle wait that follows.
ProceedJustActivated(l) ==
  /\ l.h = "handle_final_form_and_extract_premium"
  /\ l.step \in {"click_wait", "dispatch_wait", "js_wait"}

\* The handler is about to act on the Proceed button again, at once or after
\* the delay between rounds.
ProceedActedOnAgain(m) ==
  /\ m.h = "handle_final_form_and_extract_premium"
  /\ m.step \in {"scroll", "hover", "hover_wait", "click", "dispatch", "js",
                 "failed_delay"}

\* C33: within one entry of the secondary form the Proceed button is
\* activated at most once: once a mechanism has clicked it, the handler
\* invokes no further mechanism on it, whatever the settle wait or the popup
\* handling answer.
C33_ProceedActivatedOnce ==
  [][\A w \in Workers :
       ProceedJustActivated(loc[w]) => ~ProceedActedOnAgain(loc'[w])]_vars

\* l is in handle_modal_form at one of the steps that activate the Check
\* Coverage button or follow its activation.
ModalButtonActivated(l) ==
  /\ l.h = "handle_modal_form"
  /\ l.step \in {"click", "click_wait", "dispatch", "dispatch_wait", "js",
                 "js_wait", "wait_final", "final_wait"}

\* C34: an attempt of handle_modal_form that finds the Check Coverage button
\* covered by an overlay invokes no activation mechanism: it ends with the
\* delay before the next attempt or, being the last, with the variant
\* failing; the button is activated only in an attempt that did not find it
\* covered, and when all three attempts found it covered the variant has
\* failed with no activation and no wait for the final form.
C34_CoveredButtonNotClicked ==
  [][\A w \in Workers :
       LET l == loc[w]
           m == loc'[w]
           modal(step) == l.h = "handle_modal_form" /\ l.step = step
       IN  /\ (modal("is_clickable") /\ m.covered = l.covered + 1)
                => \/ /\ m.h = "handle_modal_form" /\ m.step = "covered_delay"
                      /\ m.attempt = l.attempt /\ l.attempt < max_retries - 1
                   \/ l.attempt = max_retries - 1 /\ EndsInFailure(l, m)
           /\ (modal("is_clickable") /\ l.attempt = max_retries - 1 /\ m # l)
                => \/ m.h = "handle_modal_form" /\ m.step = "click"
                      /\ m.covered = l.covered
                   \/ EndsInFailure(l, m)
           /\ (modal("covered_delay") /\ m # l)
                => \/ /\ m.h = "handle_modal_form"
                      /\ m.step \in {"scroll", "round_delay"}
                      /\ m.step = "scroll" => m.attempt = l.attempt + 1
                   \/ EndsInFailure(l, m)
           /\ ModalButtonActivated(m) => m.covered <= m.attempt
           /\ m.covered = max_retries
                => /\ Returned_handle_any_form(m) /\ ~m.form_success
                   /\ ~m.reports[Len(m.reports)].success]_vars

\* C34 witness: the third variant found the button covered in all three
\* attempts of its modal and handle_any_form has returned failure.
C34_Witness ==
  \E w \in Workers :
    /\ loc[w].covered = max_retries
    /\ Returned_handle_any_form(loc[w])
    /\ loc[w].tried = <<2, 1, 3>>
    /\ ~loc[w].form_success

\* C35: at every moment at most MAX_CONCURRENT_PAGES plan pages are open,
\* and a plan page is open only while its worker holds a slot.
C35_AtMostNOpenPages ==
  /\ Cardinality({w \in Workers : page[w] = "open"}) <= MAX_CONCURRENT_PAGES
  /\ \A w \in Workers : page[w] = "open" => Active(w)

\* C36: when collect_plan_urls has ended, by returning or by raising, on
\* whatever path, the page it opened is not open any more.
C36_CollectPageClosed ==
  cPc \in {"done", "raised"} => cPage # "open"

=============================================================================
